---------------------------- MODULE Spec2Model ----------------------------
(***************************************************************************)
(* Coupon management and coupon application of the store                   *)
(* (queries/coupon: upsertCoupon, deleteCoupon, applyCoupon).              *)
(*                                                                         *)
(* Conventions of the model                                                *)
(*  - Money is counted in cents.  Prices and shipping fees of cart items   *)
(*    are whole currency units (multiples of 100 cents), so the sums of    *)
(*    the code and storeTotal * discount are whole numbers, which the      *)
(*    numbers of the program (IEEE 754 doubles) hold exactly.              *)
(*  - A discounted amount and a cart total are doubles: the record         *)
(*    [cents |-> c, err |-> j, exp |-> p] is the double                    *)
(*    (c + j / 2^p) / 100 currency units, c being its whole cents and      *)
(*    j / 2^p the part of a cent by which it misses them (j is odd, or     *)
(*    j = 0 = p when the double is c cents exactly).  The division by 100  *)
(*    and the subtraction round to the nearest double, ties to even, as    *)
(*    the program's arithmetic does; nothing is rounded to cents.          *)
(*  - Time is an integer number of hours.  A stored date string is the     *)
(*    time the server reads from it with new Date(str), that is, as a      *)
(*    wall-clock text of the server's own time zone; InvalidDate stands    *)
(*    for a string Date cannot parse and EmptyDate for the empty string.   *)
(*  - zone is the number of hours by which a wall-clock text written in    *)
(*    UTC (toISOString without its Z) lies after the time it was written   *)
(*    for when the server reads it back: 0 for a server in UTC, 7 for      *)
(*    America/Los_Angeles in summer, -9 for Asia/Tokyo.                    *)
(*  - A coupon code is a sequence of characters; " " is the blank.         *)
(*  - The value null of an optional id is the string "null".               *)
(*  - createdAt / updatedAt of a coupon are not modelled.                  *)
(*  - Every await of a call that reads or writes data another request can  *)
(*    change is a point where other requests run: a server function is a   *)
(*    sequence of steps of a request in procs, one step for each such      *)
(*    call together with the code that follows it up to the next one.      *)
(*    Where that code reads the clock, the read is a step of its own: the  *)
(*    request resumes some time after the call has read the data.          *)
(*    The store table and the signed-in user do not change, so their       *)
(*    lookups are not steps of their own.                                  *)
(*  - A request is alone when no other request is in flight from its       *)
(*    first step to its return.                                            *)
(***************************************************************************)
EXTENDS Integers, Sequences, FiniteSets, TLC

VARIABLES
    coupons,    \* table Coupon: id -> [code, discount, startDate, endDate, storeId]
    carts,      \* table Cart: id -> [total, couponId, cartItems]
    now,        \* wall clock (new Date())
    last,       \* the call of a server function that returned or threw in the
                \* step that led to this state, NoCall when none did
    procs,      \* the requests to the server functions that are in flight
    writes,     \* log of the db.cart.update calls, with the total each one replaced
    users,      \* table User: id -> [email, name, picture, role]
    clerk,      \* identity provider: user id -> publicMetadata.role it was sent
    hook,       \* the response the webhook endpoint gave in the step that led
                \* to this state, NoRequest when it gave none
    deliveries, \* the webhook requests that are in flight
    form,       \* the coupon form as it was last rendered in the browser, and
                \* the number of ids v4() has made
    zone        \* the time zone of the server, fixed for a run (see above)

vars ==
    <<coupons, carts, now, last, procs, writes, users, clerk, hook, deliveries,
      form, zone>>

-----------------------------------------------------------------------------
(* Bounds and the data the inputs are drawn from *)

MaxTime == 3

Null == "null"
InvalidDate == -1000
EmptyDate == -2000

\* the time zones a server runs in
Zones == {-9, 0, 7}

StoreIds == {"s1", "s2"}

CodeA == <<"A">>
CodeB == <<"B">>
CodeZ == <<"Z">>

\* the cart items of the two carts of the model
ItemS1 == [storeId |-> "s1", price |-> 2000, quantity |-> 2, shippingFee |-> 500]
ItemS2 == [storeId |-> "s2", price |-> 3000, quantity |-> 1, shippingFee |-> 1000]
ItemS2b == [storeId |-> "s2", price |-> 500, quantity |-> 2, shippingFee |-> 0]

\* the calls of applyCoupon, each a code and a cart id: the codes of the two
\* coupons on the two carts, a code on a cart that does not exist, and a
\* code no coupon has
ApplyInputs ==
    {<<CodeA, "c1">>, <<CodeA, "c2">>, <<CodeB, "c1">>, <<CodeB, "c2">>,
     <<CodeA, "cx">>, <<CodeZ, "cx">>}

-----------------------------------------------------------------------------
(* The arithmetic of the program on amounts of money (IEEE 754 doubles) *)

RECURSIVE Pow2(_)
\* 2^k
Pow2(k) == IF k = 0 THEN 1 ELSE 2 * Pow2(k - 1)

RECURSIVE Pow2Mod(_, _)
\* 2^k modulo m
Pow2Mod(k, m) ==
    IF k <= 8 THEN Pow2(k) % m ELSE (256 * Pow2Mod(k - 8, m)) % m

\* j * 2^k
Shift(j, k) == IF j = 0 THEN 0 ELSE j * Pow2(k)

RECURSIVE Amount(_, _, _)
\* the double (c + j / 2^p) / 100, written with j odd or j = 0 = p
Amount(c, j, p) ==
    IF j = 0 THEN [cents |-> c, err |-> 0, exp |-> 0]
    ELSE IF p >= 8 /\ j % 256 = 0 THEN Amount(c, j \div 256, p - 8)
    ELSE IF p > 0 /\ j % 2 = 0 THEN Amount(c, j \div 2, p - 1)
    ELSE [cents |-> c, err |-> j, exp |-> p]

\* the double that is exactly c cents (c a multiple of 25)
Cents(c) == Amount(c, 0, 0)

RECURSIVE Binade(_)
\* the e with 2^e <= n / 100 < 2^(e + 1), for n >= 1
Binade(n) ==
    IF n >= 200 THEN 1 + Binade(n \div 2)
    ELSE IF n >= 100 THEN 0
    ELSE Binade(2 * n) - 1

\* the binary exponent e of (c + j / 2^p) / 100, for c >= 1 and j / 2^p
\* below a cent: 2^e <= the number < 2^(e + 1)
Exponent(c, j) ==
    LET e == Binade(c)
        power == IF e >= 0 THEN c = 100 * Pow2(e) ELSE c * Pow2(0 - e) = 100
    IN  IF j < 0 /\ power THEN e - 1 ELSE e

\* the double nearest to (c + j / 2^p) / 100, c >= 1: a double with the
\* exponent e is a multiple of 2^(e - 52), and a tie goes to the even one.
\* With a = the larger of p and 52 - e, the number is z / (100 * 2^a) for
\* the whole number z = c * 2^a + j * 2^(a - p), and the multiples are
\* those of d / (100 * 2^a), d = 100 * 2^(a - (52 - e)); z is only needed
\* modulo 2 * d.
NearestPositive(c, j, p) ==
    LET e == Exponent(c, j)
        a == IF p > 52 - e THEN p ELSE 52 - e
        d == 100 * Pow2(a - (52 - e))
        sh == Shift(j, a - p)
        z == ((c % (2 * d)) * Pow2Mod(a, 2 * d) + (sh % (2 * d))) % (2 * d)
        rem == z % d
        up == 2 * rem > d \/ (2 * rem = d /\ z \div d = 1)
    IN  Amount(c, sh - rem + (IF up THEN d ELSE 0), a)

\* the double nearest to (c + j / 2^p) / 100; a number below a cent is left
\* as it is: it is the difference of two doubles that are close, which is a
\* double
NearestDouble(c, j, p) ==
    IF c = 0 THEN Amount(c, j, p)
    ELSE IF c < 0
    THEN LET r == NearestPositive(0 - c, 0 - j, p)
         IN  [cents |-> 0 - r.cents, err |-> 0 - r.err, exp |-> r.exp]
    ELSE NearestPositive(c, j, p)

\* x - y on doubles
DoubleMinus(x, y) ==
    LET p == IF x.exp > y.exp THEN x.exp ELSE y.exp
    IN  NearestDouble(x.cents - y.cents,
                      Shift(x.err, p - x.exp) - Shift(y.err, p - y.exp), p)

-----------------------------------------------------------------------------
(* Date handling of applyCoupon *)

\* new Date(str): the time value, NaN (InvalidDate) when str does not parse
\* (the empty string does not parse either)
ParseDate(str) ==
    IF str \in {InvalidDate, EmptyDate} THEN InvalidDate ELSE str

\* a < b on Date objects: false as soon as one side is NaN
DateLt(a, b) == a # InvalidDate /\ b # InvalidDate /\ a < b

OutsideWindow_exclusive(currentDate, coupon) ==
    \/ ~ DateLt(ParseDate(coupon.startDate), currentDate)
    \/ ~ DateLt(currentDate, ParseDate(coupon.endDate))

\* currentDate < startDate || currentDate > endDate
OutsideWindow(currentDate, coupon) ==
    \/ DateLt(currentDate, ParseDate(coupon.startDate))
    \/ DateLt(ParseDate(coupon.endDate), currentDate)

-----------------------------------------------------------------------------
(* Reads of applyCoupon *)

\* db.coupon.findUnique({ where: { code } }): code is a unique column, so at
\* most one row matches; Null when none does
FindCouponByCode(table, couponCode) ==
    IF \E k \in DOMAIN table : table[k].code = couponCode
    THEN CHOOSE k \in DOMAIN table : table[k].code = couponCode
    ELSE Null

\* cart.cartItems.filter(item => item.storeId === storeId), as the positions kept
StoreItems_all(cart, storeId) == 1 .. Len(cart.cartItems)

StoreItems(cart, storeId) ==
    {i \in 1 .. Len(cart.cartItems) : cart.cartItems[i].storeId = storeId}

RECURSIVE SumLineTotals(_, _)
\* reduce((acc, item) => acc + item.price * item.quantity, 0) over the kept items
SumLineTotals(items, idx) ==
    IF idx = {} THEN 0
    ELSE LET i == CHOOSE j \in idx : TRUE
         IN  items[i].price * items[i].quantity + SumLineTotals(items, idx \ {i})

RECURSIVE SumShippingFees(_, _)
\* reduce((acc, item) => acc + item.shippingFee, 0) over the kept items
SumShippingFees(items, idx) ==
    IF idx = {} THEN 0
    ELSE LET i == CHOOSE j \in idx : TRUE
         IN  items[i].shippingFee + SumShippingFees(items, idx \ {i})

StoreSubTotal(cart, storeId) ==
    SumLineTotals(cart.cartItems, StoreItems(cart, storeId))

StoreShippingTotal_none(cart, storeId) == 0

StoreShippingTotal(cart, storeId) ==
    SumShippingFees(cart.cartItems, StoreItems(cart, storeId))

DiscountedAmount_tenth(cart, coupon) ==
    NearestDouble(
        ((StoreSubTotal(cart, coupon.storeId)
            + StoreShippingTotal(cart, coupon.storeId)) * coupon.discount)
           \div 10, 0, 0)

\* storeTotal = storeSubTotal + storeShippingTotal;
\* discountedAmount = (storeTotal * coupon.discount) / 100: the product is
\* a whole number of currency units, that is, that number of cents after the
\* division by 100, which gives the nearest double
DiscountedAmount(cart, coupon) ==
    NearestDouble(
        ((StoreSubTotal(cart, coupon.storeId)
            + StoreShippingTotal(cart, coupon.storeId)) * coupon.discount)
           \div 100, 0, 0)

\* newTotal = cart.total - discountedAmount
NewTotal(cart, discountedAmount) == DoubleMinus(cart.total, discountedAmount)


-----------------------------------------------------------------------------
(* applyCoupon *)

Ok == "ok"
ErrInvalidCode == "Invalid coupon code."
ErrExpired == "Coupon is expired or not yet active."
ErrCartNotFound == "Cart not found."
ErrAlreadyApplied == "A coupon is already applied to this cart."
ErrNoEligibleItems ==
    "No items in the cart belong to the store associated with this coupon."
ErrRecordNotFound == "PrismaClientKnownRequestError: record not found"

DateCheck_noWindow(currentDate, coupon) == Ok

\* Step 2: the date range check of the coupon that was read
DateCheck(currentDate, coupon) ==
    IF OutsideWindow(currentDate, coupon) THEN ErrExpired ELSE Ok

CartCheck_nocheck(cartTable, coupon, cartId) ==
    IF cartId \notin DOMAIN cartTable THEN ErrCartNotFound
    ELSE IF StoreItems(cartTable[cartId], coupon.storeId) = {}
         THEN ErrNoEligibleItems
    ELSE Ok

CartCheck_eligibleFirst(cartTable, coupon, cartId) ==
    IF cartId \notin DOMAIN cartTable THEN ErrCartNotFound
    ELSE IF StoreItems(cartTable[cartId], coupon.storeId) = {}
         THEN ErrNoEligibleItems
    ELSE IF cartTable[cartId].couponId # Null THEN ErrAlreadyApplied
    ELSE Ok

\* Steps 3 to 5: the cart lookup, the "no coupon yet" check and the
\* eligibility filter
CartCheck(cartTable, coupon, cartId) ==
    IF cartId \notin DOMAIN cartTable THEN ErrCartNotFound
    ELSE IF cartTable[cartId].couponId # Null THEN ErrAlreadyApplied
    ELSE IF StoreItems(cartTable[cartId], coupon.storeId) = {}
         THEN ErrNoEligibleItems
    ELSE Ok

CartUpdate_allCarts(cartTable, cartId, couponId, newTotal) ==
    [c \in DOMAIN cartTable |->
        [cartTable[c] EXCEPT !.couponId = couponId, !.total = newTotal]]

\* Step 7: db.cart.update({ where: { id }, data: { couponId, total } })
CartUpdate(cartTable, cartId, couponId, newTotal) ==
    [cartTable EXCEPT ![cartId] =
        [@ EXCEPT !.couponId = couponId, !.total = newTotal]]

\* the record of a call: who called what with which arguments, whether the
\* request that carried it was alone, the time the call read from the clock,
\* and what it returned or threw
NoCall ==
    [op |-> "none", alone |-> TRUE, caller |-> Null,
     id |-> Null, code |-> <<>>, storeUrl |-> Null, cartId |-> Null,
     result |-> Null, at |-> 0, amount |-> Cents(0),
     discount |-> [nan |-> TRUE, tenths |-> 0],
     dates |-> <<EmptyDate, EmptyDate>>, rows |-> <<>>]

Procs == {"p1", "p2"}

\* the payload of a request that has built none
NoRow ==
    [code |-> <<>>, discount |-> 0, startDate |-> EmptyDate,
     endDate |-> EmptyDate, storeId |-> Null]

NoCouponData == [none |-> TRUE]

\* a request slot without a request: pc is the await the request stands at,
\* call its record, coupon the coupon argument of a request on its way to the
\* server, couponId, row, newTotal the local variables of the function, and
\* readAt the length of the write log when the cart was read
IdleProc ==
    [pc |-> "idle", call |-> NoCall, coupon |-> NoCouponData,
     couponId |-> Null, row |-> NoRow, newTotal |-> Cents(0), readAt |-> 0]

\* the coupon form before it is rendered: at is the time of the render and
\* skew the hours by which the browser's zone is ahead of the server's zone
NoForm == [rendered |-> FALSE, at |-> 0, skew |-> 0, data |-> Null, made |-> 0]

\* no request other than p is in flight
Alone(p) == \A q \in Procs \ {p} : procs[q].pc = "idle"

\* the requests after a request starts in the slot p (p is Null for a call
\* that is one step): those in flight are no longer alone
Overlap(p) ==
    [q \in Procs |->
        IF q # p /\ procs[q].pc # "idle"
        THEN [procs[q] EXCEPT !.call.alone = FALSE]
        ELSE procs[q]]

\* applyCoupon(couponCode, cartId) starts as the request p:
\* db.coupon.findUnique reads the coupon, and a call that finds none throws
CallApplyCoupon(p, couponCode, cartId) ==
    LET k == FindCouponByCode(coupons, couponCode)
        call == [NoCall EXCEPT !.op = "applyCoupon",
                    !.alone = Alone(p), !.code = couponCode,
                    !.cartId = cartId]
    IN  /\ procs[p].pc = "idle"
        /\ IF k # Null
           THEN /\ procs' = [Overlap(p) EXCEPT ![p] =
                      [IdleProc EXCEPT !.pc = "checkDates", !.call = call,
                                       !.couponId = k, !.row = coupons[k]]]
                /\ last' = NoCall
           ELSE /\ procs' = Overlap(p)
                /\ last' = [call EXCEPT !.result = ErrInvalidCode]
        /\ UNCHANGED <<coupons, carts, now, writes, users, clerk, hook,
                       deliveries, form, zone>>

\* the request resumes with the coupon it read: new Date() reads the clock,
\* then the date range check, up to db.cart.findUnique
CheckDates(p) ==
    LET r == DateCheck(now, procs[p].row)
        call == [procs[p].call EXCEPT !.at = now]
    IN  /\ procs[p].pc = "checkDates"
        /\ IF r = Ok
           THEN /\ procs' = [procs EXCEPT ![p] =
                      [@ EXCEPT !.pc = "fetchCart", !.call = call]]
                /\ last' = NoCall
           ELSE /\ procs' = [procs EXCEPT ![p] = IdleProc]
                /\ last' = [call EXCEPT !.result = r]
        /\ UNCHANGED <<coupons, carts, now, writes, users, clerk, hook,
                       deliveries, form, zone>>

FetchCart_writeFirst(p) ==
    LET coupon == procs[p].row
        cartId == procs[p].call.cartId
        r == CartCheck(carts, coupon, cartId)
        amount == DiscountedAmount(carts[cartId], coupon)
    IN  /\ procs[p].pc = "fetchCart"
        /\ IF r = Ok
           THEN /\ procs' = [procs EXCEPT ![p] =
                      [@ EXCEPT !.pc = "update", !.readAt = Len(writes),
                                !.newTotal = NewTotal(carts[cartId], amount),
                                !.call.amount = amount]]
                /\ last' = NoCall
                /\ UNCHANGED carts
           ELSE /\ procs' = [procs EXCEPT ![p] = IdleProc]
                /\ last' = [procs[p].call EXCEPT !.result = r]
                /\ carts' = IF r = ErrNoEligibleItems
                            THEN CartUpdate(carts, cartId, procs[p].couponId,
                                            NewTotal(carts[cartId], amount))
                            ELSE carts
        /\ UNCHANGED <<coupons, now, writes, users, clerk, hook, deliveries,
                       form, zone>>

\* db.cart.findUnique, then steps 4 to 6 on the cart that was read and the
\* coupon that was read before
FetchCart(p) ==
    LET coupon == procs[p].row
        cartId == procs[p].call.cartId
        r == CartCheck(carts, coupon, cartId)
        amount == DiscountedAmount(carts[cartId], coupon)
    IN  /\ procs[p].pc = "fetchCart"
        /\ IF r = Ok
           THEN /\ procs' = [procs EXCEPT ![p] =
                      [@ EXCEPT !.pc = "update", !.readAt = Len(writes),
                                !.newTotal = NewTotal(carts[cartId], amount),
                                !.call.amount = amount]]
                /\ last' = NoCall
           ELSE /\ procs' = [procs EXCEPT ![p] = IdleProc]
                /\ last' = [procs[p].call EXCEPT !.result = r]
        /\ UNCHANGED <<coupons, carts, now, writes, users, clerk, hook,
                       deliveries, form, zone>>

UpdateCart_conditional(p) ==
    LET cartId == procs[p].call.cartId
    IN  /\ procs[p].pc = "update"
        /\ IF carts[cartId].couponId = Null
           THEN /\ carts' = CartUpdate(carts, cartId, procs[p].couponId,
                                       procs[p].newTotal)
                /\ writes' = Append(writes,
                      [cartId |-> cartId,
                       couponId |-> procs[p].couponId,
                       before |-> carts[cartId].total,
                       total |-> procs[p].newTotal,
                       readAt |-> procs[p].readAt])
                /\ last' = [procs[p].call EXCEPT !.result = Ok]
           ELSE /\ last' = [procs[p].call EXCEPT !.result = ErrAlreadyApplied]
                /\ UNCHANGED <<carts, writes>>
        /\ procs' = [procs EXCEPT ![p] = IdleProc]
        /\ UNCHANGED <<coupons, now, users, clerk, hook, deliveries, form, zone>>

\* db.cart.update with the couponId and the total computed from the cart that
\* was read, then the return (no cart and no coupon is deleted while carts
\* exist, so the row and the coupon it refers to exist)
UpdateCart(p) ==
    LET cartId == procs[p].call.cartId
    IN  /\ procs[p].pc = "update"
        /\ carts' = CartUpdate(carts, cartId, procs[p].couponId,
                               procs[p].newTotal)
        /\ writes' = Append(writes,
              [cartId |-> cartId, couponId |-> procs[p].couponId,
               before |-> carts[cartId].total, total |-> procs[p].newTotal,
               readAt |-> procs[p].readAt])
        /\ last' = [procs[p].call EXCEPT !.result = Ok]
        /\ procs' = [procs EXCEPT ![p] = IdleProc]
        /\ UNCHANGED <<coupons, now, users, clerk, hook, deliveries, form, zone>>

\* time passes
Tick ==
    /\ now < MaxTime
    /\ now' = now + 1
    /\ last' = NoCall
    /\ UNCHANGED <<coupons, carts, procs, writes, users, clerk, hook,
                   deliveries, form, zone>>

-----------------------------------------------------------------------------
(* The webhook endpoint of the identity provider (api/webhooks POST) *)

\* the user table and the identity provider before any user exists
NoUsers == [u \in {} |-> Null]

\* a request: the server secret is set or not, one of the three svix headers
\* may be missing, the signature verifies or not; the event has a type, the
\* user id, the email addresses with the id of the primary one, and the
\* profile (first_name, last_name, image_url, profile_image_url); clerkOk
\* tells whether the identity provider accepts the metadata update
NoProfile == [first |-> Null, last |-> Null, image |-> Null, profileImage |-> Null]
FullProfile == [first |-> "Ann", last |-> "Lee", image |-> "img", profileImage |-> Null]

EmailA == [id |-> "e1", email_address |-> "a@x"]
EmailB == [id |-> "e2", email_address |-> "b@x"]

NoEvent ==
    [secret |-> TRUE, missing |-> Null, validSig |-> TRUE, type |-> "none",
     id |-> Null, emails |-> <<>>, primary |-> Null, profile |-> NoProfile,
     clerkOk |-> TRUE]

\* the record of a delivery: the request, the slot that carried it and
\* whether it was alone, the role db.user.upsert returned, the status of the
\* response and the role that was sent to the identity provider; again tells
\* that the endpoint had just answered an alone delivery of the same verified
\* event, prevStatus and prevSent are what it had answered
NoRequest ==
    [req |-> NoEvent, by |-> Null, alone |-> TRUE, role |-> Null,
     status |-> 0, sent |-> Null, again |-> FALSE, prevStatus |-> 0,
     prevSent |-> Null]

Hooks == {"h1", "h2"}

\* a delivery slot without a request
IdleDelivery == [pc |-> "idle", rsp |-> NoRequest]

\* no delivery other than h is in flight
AloneHook(h) == \A g \in Hooks \ {h} : deliveries[g].pc = "idle"

\* the deliveries after a request arrives in the slot h: those in flight are
\* no longer alone
OverlapHook(h) ==
    [g \in Hooks |->
        IF g # h /\ deliveries[g].pc # "idle"
        THEN [deliveries[g] EXCEPT !.rsp.alone = FALSE]
        ELSE deliveries[g]]

\* the event of a request: what the identity provider signed and sent
EventOf(req) ==
    [type |-> req.type, id |-> req.id, emails |-> req.emails,
     primary |-> req.primary, profile |-> req.profile]

\* the request passes the secret, header and signature checks
Verified(req) == req.secret /\ req.missing = Null /\ req.validSig

DefaultPicture == "https://www.gravatar.com/avatar?d=mp"

\* a verified request with an event
Event(type, id, emails, primary, profile, clerkOk) ==
    [NoEvent EXCEPT !.type = type, !.id = id, !.emails = emails,
        !.primary = primary, !.profile = profile, !.clerkOk = clerkOk]

\* the requests that are delivered: three that do not pass the
\* verification, user.created and user.updated events for the two ids with
\* one or two addresses, with and without a profile, the primary address
\* named or left out, one without any address and two the identity provider
\* refuses afterwards, the two user.deleted events and an event of another
\* type
RequestInputs ==
    {[Event("user.created", "x1", <<EmailA>>, "e1", FullProfile, TRUE)
         EXCEPT !.secret = FALSE, !.missing = "svix-id"],
     [Event("user.created", "x1", <<EmailA>>, "e1", FullProfile, TRUE)
         EXCEPT !.missing = "svix-timestamp"],
     [Event("user.created", "x1", <<EmailA>>, "e1", FullProfile, TRUE)
         EXCEPT !.validSig = FALSE],
     Event("user.created", "x1", <<EmailA>>, "e1", FullProfile, TRUE),
     Event("user.created", "x1", <<EmailA>>, "e1", FullProfile, FALSE),
     Event("user.updated", "x1", <<EmailA, EmailB>>, "e2", FullProfile, TRUE),
     Event("user.updated", "x2", <<EmailA, EmailB>>, "e2", NoProfile, TRUE),
     Event("user.updated", "x2", <<EmailA, EmailB>>, "e2", NoProfile, FALSE),
     Event("user.created", "x2", <<EmailA>>, Null, NoProfile, TRUE),
     Event("user.updated", "x1", <<>>, Null, FullProfile, TRUE),
     Event("user.deleted", "x1", <<>>, Null, NoProfile, TRUE),
     Event("user.deleted", "x2", <<>>, Null, NoProfile, TRUE),
     Event("session.created", "x1", <<>>, Null, NoProfile, TRUE)}

TransportStatus_headersFirst(req) ==
    IF req.missing # Null THEN 400
    ELSE IF ~ req.secret THEN 500
    ELSE IF ~ req.validSig THEN 400
    ELSE 0

\* the response of the checks before the event is handled, 0 when they pass:
\* the secret, the three headers, then wh.verify
TransportStatus(req) ==
    IF ~ req.secret THEN 500
    ELSE IF req.missing # Null THEN 400
    ELSE IF ~ req.validSig THEN 400
    ELSE 0

ResolveEmail_placeholder(req) ==
    IF req.emails = <<>> THEN "a@x" ELSE req.emails[1].email_address

\* data.email_addresses?.find(e => e.id === primary_email_address_id)
\*    ?? data.email_addresses?.[0], then ?.email_address; Null when undefined
ResolveEmail(req) ==
    IF \E i \in 1 .. Len(req.emails) : req.emails[i].id = req.primary
    THEN LET i == CHOOSE i \in 1 .. Len(req.emails) :
                     /\ req.emails[i].id = req.primary
                     /\ \A j \in 1 .. i - 1 : req.emails[j].id # req.primary
         IN  req.emails[i].email_address
    ELSE IF req.emails # <<>> THEN req.emails[1].email_address
    ELSE Null

\* [first_name, last_name].filter(Boolean).join(" ").trim() || email, as the
\* sequence of its words
UserName(profile, email) ==
    LET words == SelectSeq(<<profile.first, profile.last>>,
                           LAMBDA w : w # Null)
    IN  IF words = <<>> THEN <<email>> ELSE words

\* image_url || profile_image_url || the default avatar
UserPicture(profile) ==
    IF profile.image # Null THEN profile.image
    ELSE IF profile.profileImage # Null THEN profile.profileImage
    ELSE DefaultPicture

\* the id of the row db.user.upsert({ where: { email } }) finds, Null if none
FindUserByEmail(table, email) ==
    IF \E k \in DOMAIN table : table[k].email = email
    THEN CHOOSE k \in DOMAIN table : table[k].email = email
    ELSE Null

UserUpsertFails_anyId(table, id, email) == id \in DOMAIN table

\* db.user.upsert throws: the id it writes is the primary key of another row
UserUpsertFails(table, id, email) ==
    id \in DOMAIN table /\ table[id].email # email

UserUpsert_keepOld(table, id, email, name, picture) ==
    LET k == FindUserByEmail(table, email)
    IN  [u \in DOMAIN table \cup {id} |->
            IF u = id
            THEN [email |-> email, name |-> name, picture |-> picture,
                  role |-> IF k = Null THEN "USER" ELSE table[k].role]
            ELSE table[u]]

UserUpsert_resetRole(table, id, email, name, picture) ==
    LET k == FindUserByEmail(table, email)
    IN  [u \in (DOMAIN table \ {k}) \cup {id} |->
            IF u = id
            THEN [email |-> email, name |-> name, picture |-> picture,
                  role |-> "USER"]
            ELSE table[u]]

\* db.user.upsert({ where: { email }, update: { id, name, email, picture },
\*   create: { id, name, email, picture, role: "USER" } })
UserUpsert(table, id, email, name, picture) ==
    LET k == FindUserByEmail(table, email)
    IN  [u \in (DOMAIN table \ {k}) \cup {id} |->
            IF u = id
            THEN [email |-> email, name |-> name, picture |-> picture,
                  role |-> IF k = Null THEN "USER" ELSE table[k].role]
            ELSE table[u]]

UserDelete_all(table, id) == NoUsers

\* db.user.delete({ where: { id } }) on a row that exists
UserDelete(table, id) == [u \in DOMAIN table \ {id} |-> table[u]]

\* the record of the request req that arrives in the slot h
Request(h, req) ==
    LET again == /\ Verified(req) /\ hook.status # 0 /\ hook.alone
                 /\ Verified(hook.req) /\ EventOf(hook.req) = EventOf(req)
    IN  [NoRequest EXCEPT !.req = req, !.by = h, !.alone = AloneHook(h),
            !.again = again,
            !.prevStatus = IF again THEN hook.status ELSE 0,
            !.prevSent = IF again THEN hook.sent ELSE Null]

\* the record of a delivery that is answered
Response(rsp, status, sent) == [rsp EXCEPT !.status = status, !.sent = sent]

CaughtTable_rollback(table, id) == [u \in DOMAIN table \ {id} |-> table[u]]

\* the user table after updateUserMetadata threw and the catch block
\* answered 500: the row the upsert wrote stays
CaughtTable(table, id) == table

\* POST: the request req arrives in the slot h and is handled up to its
\* response or, for a user.created / user.updated event, to db.user.upsert
Webhook(h, req) ==
    LET ts == TransportStatus(req)
        email == ResolveEmail(req)
        written == UserUpsert(users, req.id, email,
                              UserName(req.profile, email),
                              UserPicture(req.profile))
        rsp == Request(h, req)
        status ==
            IF ts # 0 THEN ts
            ELSE IF req.type \in {"user.created", "user.updated"}
            THEN IF email = Null THEN 400
                 ELSE IF UserUpsertFails(users, req.id, email) THEN 500
                 ELSE 0
            ELSE IF req.type = "user.deleted"
            THEN \* the delete of a missing row throws out of the handler
                 IF req.id \in DOMAIN users THEN 200 ELSE 500
            ELSE 200
    IN  /\ deliveries[h].pc = "idle"
        /\ users' =
              IF status = 0 THEN written
              ELSE IF ts = 0 /\ req.type = "user.deleted" /\ status = 200
                   THEN UserDelete(users, req.id)
              ELSE users
        /\ IF status = 0
           THEN /\ deliveries' = [OverlapHook(h) EXCEPT ![h] =
                      [pc |-> "mirror",
                       rsp |-> [rsp EXCEPT !.role = written[req.id].role]]]
                /\ hook' = NoRequest
           ELSE /\ deliveries' = OverlapHook(h)
                /\ hook' = Response(rsp, status, Null)
        /\ UNCHANGED <<coupons, carts, now, last, procs, writes, clerk, form,
                       zone>>

\* clerkClient.users.updateUserMetadata with the role db.user.upsert
\* returned, then the response
UpdateUserMetadata(h) ==
    LET rsp == deliveries[h].rsp
    IN  /\ deliveries[h].pc = "mirror"
        /\ IF rsp.req.clerkOk
           THEN /\ clerk' = [u \in DOMAIN clerk \cup {rsp.req.id} |->
                               IF u = rsp.req.id THEN rsp.role ELSE clerk[u]]
                /\ hook' = Response(rsp, 200, rsp.role)
                /\ UNCHANGED users
           ELSE /\ users' = CaughtTable(users, rsp.req.id)
                /\ hook' = Response(rsp, 500, Null)
                /\ UNCHANGED clerk
        /\ deliveries' = [deliveries EXCEPT ![h] = IdleDelivery]
        /\ UNCHANGED <<coupons, carts, now, last, procs, writes, form, zone>>

-----------------------------------------------------------------------------
(* The shop the coupon application runs in: two coupons with distinct codes *)
(* and two carts without a coupon                                          *)

\* the coupon k1 of the shop: its store, its discount and its two dates
Shops ==
    {[storeId |-> "s1", discount |-> 10, window |-> <<1, 2>>],
     [storeId |-> "s2", discount |-> 99, window |-> <<1, 2>>],
     [storeId |-> "s1", discount |-> 10, window |-> <<InvalidDate, 2>>]}

CouponRow(code, discount, window, storeId) ==
    [code |-> code, discount |-> discount, startDate |-> window[1],
     endDate |-> window[2], storeId |-> storeId]

CartRow(total, items) ==
    [total |-> Cents(total), couponId |-> Null, cartItems |-> items]

InitShop ==
    /\ \E shop \in Shops :
          coupons = [k \in {"k1", "k2"} |->
                        IF k = "k1"
                        THEN CouponRow(CodeA, shop.discount, shop.window,
                                       shop.storeId)
                        ELSE CouponRow(CodeB, 7, <<0, 2>>, "s2")]
    /\ carts = [c \in {"c1", "c2"} |->
                   IF c = "c1" THEN CartRow(10000, <<ItemS1, ItemS2>>)
                   ELSE CartRow(1000, <<ItemS2b>>)]
    /\ now = 0
    /\ last = NoCall
    /\ procs = [p \in Procs |-> IdleProc]
    /\ writes = <<>>
    /\ users = NoUsers /\ clerk = NoUsers /\ hook = NoRequest
    /\ deliveries = [h \in Hooks |-> IdleDelivery]
    /\ form = NoForm
    /\ zone = 0

-----------------------------------------------------------------------------
(* Shoppers apply coupons: every request is any call, and time passes *)

NextApply ==
    \/ \E p \in Procs, call \in ApplyInputs :
          CallApplyCoupon(p, call[1], call[2])
    \/ \E p \in Procs : CheckDates(p)
    \/ \E p \in Procs : FetchCart(p)
    \/ \E p \in Procs : UpdateCart(p)
    \/ Tick

SpecApply == InitShop /\ [][NextApply]_vars

-----------------------------------------------------------------------------
(* Sellers, stores and the inputs of the administrative functions *)

NoUser == Null
Callers == {NoUser, "u1", "u2", "u3"}

\* user.publicMetadata.role of the signed-in user
RoleOf(user) == IF user \in {"u1", "u2"} THEN "SELLER" ELSE "USER"

\* table Store: u1 owns s1, u2 owns s2
StoreTable ==
    [s \in StoreIds |->
        IF s = "s1" THEN [url |-> "url1", userId |-> "u1"]
        ELSE [url |-> "url2", userId |-> "u2"]]

StoreUrlInputs == {"url1", "url2", "nourl", ""}
CouponIdInputs == {"k1", "k2"}

\* a discount as the client sends it: not a number, or a number in tenths
NotANumber == [nan |-> TRUE, tenths |-> 0]
Tenths(t) == [nan |-> FALSE, tenths |-> t]

ConcCodeInputs == {<<" ", "A">>, <<"A">>, <<"B">>}

\* the coupon object a client passes to upsertCoupon
CouponData(id, code, d, dates) ==
    [none |-> FALSE, id |-> id, code |-> code, discount |-> d,
     dates |-> dates]

\* the calls <<user, coupon, storeUrl>> of upsertCoupon made in SpecAdmin:
\* owners and a seller who is not the owner write the codes " A" and "B "
\* under two ids, and one call fails each check of the arguments
AdminCoupon(id, code) == CouponData(id, code, Tenths(1500), <<EmptyDate, 2>>)

AdminUpsertInputs ==
    {<<"u1", AdminCoupon("k1", <<" ", "A">>), "url1">>,
     <<"u1", AdminCoupon("k2", <<" ", "A">>), "url1">>,
     <<"u1", AdminCoupon("k2", <<"B", " ">>), "url1">>,
     <<"u2", AdminCoupon("k2", <<" ", "A">>), "url2">>,
     <<"u2", AdminCoupon("k2", <<"B", " ">>), "url2">>,
     <<"u1", AdminCoupon("k2", <<"B", " ">>), "url2">>,
     <<"u2", AdminCoupon("k1", <<" ", "A">>), "url1">>,
     <<NoUser, AdminCoupon("k1", <<" ", "A">>), "url1">>,
     <<"u3", AdminCoupon("k1", <<" ", "A">>), "url1">>,
     <<"u1", NoCouponData, "url1">>,
     <<"u1", AdminCoupon("k1", <<" ", "A">>), "">>,
     <<"u1", AdminCoupon("k1", <<" ">>), "url1">>,
     <<"u1", AdminCoupon("k1", <<" ", "A">>), "nourl">>}

\* the calls <<user, couponId, storeUrl>> of deleteCoupon made in SpecAdmin
AdminDeleteInputs ==
    ({"u1", "u2"} \X {"k1", "k2"} \X {"url1", "url2"})
        \cup {<<NoUser, "k1", "url1">>, <<"u3", "k1", "url1">>,
              <<"u1", "", "url1">>, <<"u1", "k1", "">>,
              <<"u1", "k1", "nourl">>, <<"u1", "kx", "url1">>}

ThirtyDays == 30 * 24

ErrUnauthenticated == "Unauthenticated."
ErrSellerRequired == "Unauthorized Access: Seller Privileges Required for Entry."
ErrSellerRequiredDelete == "Unauthorized Access: Seller Privileges Required."
ErrNoCouponData == "Please provide coupon data."
ErrNoStoreUrl == "Store URL is required."
ErrRequired == "Coupon code, start date, and end date are required."
ErrDiscountRange == "Discount must be between 1 and 99."
ErrStoreNotFound == "Store not found."
ErrDuplicateCode == "A coupon with the same code already exists for this store."
ErrUniqueConstraint ==
    "PrismaClientKnownRequestError: unique constraint failed on Coupon.code"
ErrNoIdOrUrl == "Please provide coupon ID and store URL."
ErrNotOwner ==
    "You are not the owner of this store. Only the store owner can delete coupons."

-----------------------------------------------------------------------------
(* upsertCoupon *)

RECURSIVE TrimStart(_)
TrimStart(str) ==
    IF str # <<>> /\ Head(str) = " " THEN TrimStart(Tail(str)) ELSE str

RECURSIVE TrimEnd(_)
TrimEnd(str) ==
    IF str # <<>> /\ str[Len(str)] = " "
    THEN TrimEnd(SubSeq(str, 1, Len(str) - 1)) ELSE str

Trim_startOnly(str) == TrimStart(str)

\* String.prototype.trim
Trim(str) == TrimEnd(TrimStart(str))

\* Math.round of a non-negative number given in tenths
MathRound(tenths) == (tenths + 5) \div 10

NormalizeDiscount_clamp(d) ==
    IF d.nan \/ d.tenths < 10 THEN 1
    ELSE IF d.tenths > 990 THEN 99 ELSE MathRound(d.tenths)

\* Number.isNaN(n) || n < 1 || n > 99 ? 1 : Math.round(n)
NormalizeDiscount(d) ==
    IF d.nan \/ d.tenths < 10 \/ d.tenths > 990 THEN 1 ELSE MathRound(d.tenths)

\* new Date(t).toISOString().slice(0, 19): the UTC wall-clock text of the
\* time t without its Z, which new Date(str) reads as a text of the server's
\* own zone
IsoText(t) == t + zone

\* startDateStr || new Date().toISOString().slice(0, 19)
NormalizeStartDate(str, currentDate) ==
    IF str = EmptyDate THEN IsoText(currentDate) ELSE str

NormalizeEndDate_keepEmpty(str, currentDate) == str

\* endDateStr || new Date(Date.now() + 30 days).toISOString().slice(0, 19)
NormalizeEndDate(str, currentDate) ==
    IF str = EmptyDate THEN IsoText(currentDate + ThirtyDays) ELSE str

CouponPayload_rawDiscount(coupon, currentDate, storeId) ==
    [code |-> Trim(coupon.code),
     discount |-> MathRound(coupon.discount.tenths),
     startDate |-> NormalizeStartDate(coupon.dates[1], currentDate),
     endDate |-> NormalizeEndDate(coupon.dates[2], currentDate),
     storeId |-> storeId]

\* couponPayload, with the storeId of the store that was looked up
CouponPayload(coupon, currentDate, storeId) ==
    [code |-> Trim(coupon.code),
     discount |-> MathRound(10 * NormalizeDiscount(coupon.discount)),
     startDate |-> NormalizeStartDate(coupon.dates[1], currentDate),
     endDate |-> NormalizeEndDate(coupon.dates[2], currentDate),
     storeId |-> storeId]

\* db.store.findUnique({ where: { url } }): the store's id, Null when none
FindStoreByUrl(storeUrl) ==
    IF \E s \in DOMAIN StoreTable : StoreTable[s].url = storeUrl
    THEN CHOOSE s \in DOMAIN StoreTable : StoreTable[s].url = storeUrl
    ELSE Null

\* db.coupon.findFirst({ code, storeId, NOT: { id } }) finds a row
ExistingCoupon(table, code, storeId, id) ==
    \E k \in DOMAIN table :
        table[k].code = code /\ table[k].storeId = storeId /\ k # id

\* the unique index on Coupon.code that applyCoupon's findUnique({ code })
\* relies on: writing the code under this id would put it on two rows
CodeIndexViolation(table, code, id) ==
    \E k \in DOMAIN table : table[k].code = code /\ k # id

\* the checks of upsertCoupon before db.coupon.findFirst: Ok when all pass
UpsertCheck(user, coupon, storeUrl) ==
    IF user = NoUser THEN ErrUnauthenticated
    ELSE IF RoleOf(user) # "SELLER" THEN ErrSellerRequired
    ELSE IF coupon.none THEN ErrNoCouponData
    ELSE IF storeUrl = "" THEN ErrNoStoreUrl
    ELSE IF Trim(coupon.code) = <<>> THEN ErrRequired
    ELSE IF NormalizeDiscount(coupon.discount) < 1
              \/ NormalizeDiscount(coupon.discount) > 99 THEN ErrDiscountRange
    ELSE IF FindStoreByUrl(storeUrl) = Null THEN ErrStoreNotFound
    ELSE Ok

UpsertRow_dropOthers(table, id, row) == [k \in {id} |-> row]

\* db.coupon.upsert({ where: { id }, update, create })
UpsertRow(table, id, row) ==
    [k \in DOMAIN table \cup {id} |-> IF k = id THEN row ELSE table[k]]

\* the request in the slot p runs upsertCoupon(coupon, storeUrl) for user up
\* to db.coupon.findFirst: the checks of the caller and the arguments, the
\* payload with the clock read for its fallback dates, and the store lookup
BuildPayload(p, user, coupon, storeUrl) ==
    LET r == UpsertCheck(user, coupon, storeUrl)
        sent == procs[p].pc = "sent"
        call == [NoCall EXCEPT !.op = "upsertCoupon",
                    !.alone = IF sent THEN procs[p].call.alone ELSE Alone(p),
                    !.caller = user,
                    !.id = IF coupon.none THEN Null ELSE coupon.id,
                    !.code = IF coupon.none THEN <<>> ELSE coupon.code,
                    !.discount = IF coupon.none THEN NoCall.discount
                                 ELSE coupon.discount,
                    !.dates = IF coupon.none THEN NoCall.dates
                              ELSE coupon.dates,
                    !.storeUrl = storeUrl, !.at = now]
        others == IF sent THEN procs ELSE Overlap(p)
    IN  /\ IF r = Ok
           THEN /\ procs' = [others EXCEPT ![p] =
                      [IdleProc EXCEPT !.pc = "findFirst", !.call = call,
                          !.couponId = coupon.id,
                          !.row = CouponPayload(coupon, now,
                                                FindStoreByUrl(storeUrl))]]
                /\ last' = NoCall
           ELSE /\ procs' = [others EXCEPT ![p] = IdleProc]
                /\ last' = [call EXCEPT !.result = r]
        /\ UNCHANGED <<coupons, carts, now, writes, users, clerk, hook,
                       deliveries, form, zone>>

\* upsertCoupon(coupon, storeUrl) called by user starts as the request p
CallUpsertCoupon(p, user, coupon, storeUrl) ==
    /\ procs[p].pc = "idle"
    /\ BuildPayload(p, user, coupon, storeUrl)

\* db.coupon.findFirst for another coupon of the store with the code of the
\* payload, then the duplicate check
FindExistingCoupon(p) ==
    /\ procs[p].pc = "findFirst"
    /\ IF ExistingCoupon(coupons, procs[p].row.code, procs[p].row.storeId,
                         procs[p].couponId)
       THEN /\ procs' = [procs EXCEPT ![p] = IdleProc]
            /\ last' = [procs[p].call EXCEPT !.result = ErrDuplicateCode]
       ELSE /\ procs' = [procs EXCEPT ![p] = [@ EXCEPT !.pc = "upsert"]]
            /\ last' = NoCall
    /\ UNCHANGED <<coupons, carts, now, writes, users, clerk, hook,
                   deliveries, form, zone>>

WriteCoupon_recheck(p) ==
    /\ procs[p].pc = "upsert"
    /\ IF ExistingCoupon(coupons, procs[p].row.code, procs[p].row.storeId,
                         procs[p].couponId)
       THEN /\ last' = [procs[p].call EXCEPT !.result = ErrDuplicateCode]
            /\ UNCHANGED coupons
       ELSE IF CodeIndexViolation(coupons, procs[p].row.code, procs[p].couponId)
       THEN /\ last' = [procs[p].call EXCEPT !.result = ErrUniqueConstraint]
            /\ UNCHANGED coupons
       ELSE /\ coupons' = UpsertRow(coupons, procs[p].couponId, procs[p].row)
            /\ last' = [procs[p].call EXCEPT !.result = Ok]
    /\ procs' = [procs EXCEPT ![p] = IdleProc]
    /\ UNCHANGED <<carts, now, writes, users, clerk, hook, deliveries, form,
                   zone>>

\* db.coupon.upsert of the payload built before the lookup, then the return;
\* the database refuses a code that another row holds
WriteCoupon(p) ==
    /\ procs[p].pc = "upsert"
    /\ IF CodeIndexViolation(coupons, procs[p].row.code, procs[p].couponId)
       THEN /\ last' = [procs[p].call EXCEPT !.result = ErrUniqueConstraint]
            /\ UNCHANGED coupons
       ELSE /\ coupons' = UpsertRow(coupons, procs[p].couponId, procs[p].row)
            /\ last' = [procs[p].call EXCEPT !.result = Ok]
    /\ procs' = [procs EXCEPT ![p] = IdleProc]
    /\ UNCHANGED <<carts, now, writes, users, clerk, hook, deliveries, form,
                   zone>>

-----------------------------------------------------------------------------
(* deleteCoupon *)

DeleteMatch_byId(table, couponId, storeId) == couponId \in DOMAIN table

\* the row db.coupon.delete({ where: { id, storeId } }) removes exists
DeleteMatch(table, couponId, storeId) ==
    couponId \in DOMAIN table /\ table[couponId].storeId = storeId

\* what deleteCoupon returns or throws
DeleteResult(table, user, couponId, storeUrl) ==
    IF user = NoUser THEN ErrUnauthenticated
    ELSE IF RoleOf(user) # "SELLER" THEN ErrSellerRequiredDelete
    ELSE IF couponId = "" \/ storeUrl = "" THEN ErrNoIdOrUrl
    ELSE IF FindStoreByUrl(storeUrl) = Null THEN ErrStoreNotFound
    ELSE IF StoreTable[FindStoreByUrl(storeUrl)].userId # user THEN ErrNotOwner
    ELSE IF ~ DeleteMatch(table, couponId, FindStoreByUrl(storeUrl))
         THEN ErrRecordNotFound
    ELSE Ok

DeleteRow(table, couponId) == [k \in DOMAIN table \ {couponId} |-> table[k]]

\* deleteCoupon(couponId, storeUrl) called by user: db.coupon.delete is its
\* one call on data that changes, so the call is one step; no cart exists
\* while coupons are deleted, so no cart refers to the deleted row
DeleteCoupon(user, couponId, storeUrl) ==
    LET res == DeleteResult(coupons, user, couponId, storeUrl)
    IN  /\ coupons' = IF res = Ok THEN DeleteRow(coupons, couponId) ELSE coupons
        /\ last' = [NoCall EXCEPT !.op = "deleteCoupon", !.alone = Alone(Null),
                       !.caller = user, !.id = couponId, !.storeUrl = storeUrl,
                       !.result = res, !.at = now]
        /\ procs' = Overlap(Null)
        /\ UNCHANGED <<carts, now, writes, users, clerk, hook, deliveries,
                       form, zone>>

-----------------------------------------------------------------------------
(* getStoreCoupons *)

\* what getStoreCoupons returns or throws
ErrNotOwnerRead == "Unauthorized Access: You do not own this store."

GetStoreCouponsResult(user, storeUrl) ==
    IF user = NoUser THEN ErrUnauthenticated
    ELSE IF RoleOf(user) # "SELLER" THEN ErrSellerRequired
    ELSE IF storeUrl = "" THEN ErrNoStoreUrl
    ELSE IF FindStoreByUrl(storeUrl) = Null THEN ErrStoreNotFound
    ELSE IF StoreTable[FindStoreByUrl(storeUrl)].userId # user THEN ErrNotOwnerRead
    ELSE Ok

StoreCoupons_all(table, storeId) == table

\* db.coupon.findMany({ where: { storeId } })
StoreCoupons(table, storeId) ==
    [k \in {j \in DOMAIN table : table[j].storeId = storeId} |-> table[k]]

\* getStoreCoupons(storeUrl) called by user: db.coupon.findMany is its one
\* call on data that changes, so the call is one step
GetStoreCoupons(user, storeUrl) ==
    LET res == GetStoreCouponsResult(user, storeUrl)
    IN  /\ last' = [NoCall EXCEPT !.op = "getStoreCoupons",
                       !.alone = Alone(Null), !.caller = user,
                       !.storeUrl = storeUrl, !.result = res, !.at = now,
                       !.rows = IF res = Ok
                                THEN StoreCoupons(coupons,
                                                  FindStoreByUrl(storeUrl))
                                ELSE <<>>]
        /\ procs' = Overlap(Null)
        /\ UNCHANGED <<coupons, carts, now, writes, users, clerk, hook,
                       deliveries, form, zone>>

InitAdmin ==
    /\ coupons = [k \in {} |-> Null]
    /\ carts = [c \in {} |-> Null]
    /\ now = 0
    /\ last = NoCall
    /\ procs = [p \in Procs |-> IdleProc]
    /\ writes = <<>>
    /\ users = NoUsers /\ clerk = NoUsers /\ hook = NoRequest
    /\ deliveries = [h \in Hooks |-> IdleDelivery]
    /\ form = NoForm
    /\ zone \in Zones

NextAdmin ==
    \/ \E p \in Procs, in \in AdminUpsertInputs :
          CallUpsertCoupon(p, in[1], in[2], in[3])
    \/ \E p \in Procs : FindExistingCoupon(p)
    \/ \E p \in Procs : WriteCoupon(p)
    \/ \E in \in AdminDeleteInputs : DeleteCoupon(in[1], in[2], in[3])

SpecAdmin == InitAdmin /\ [][NextAdmin]_vars

-----------------------------------------------------------------------------
(* Properties of the coupon application (SpecApply) *)

\* a step in which a call of applyCoupon returns or throws, the request
\* having been alone: last' describes the call, and the tables before the
\* step are those the call started with
ApplyStep == last'.op = "applyCoupon" /\ last'.alone

\* a step in which any call of applyCoupon returns or throws
ApplyReturn == last'.op = "applyCoupon"

RECURSIVE EligibleSum(_, _, _)
\* sum of price * quantity + shippingFee over the first n items that belong
\* to the store sid
EligibleSum(items, n, sid) ==
    IF n = 0 THEN 0
    ELSE (IF items[n].storeId = sid
          THEN items[n].price * items[n].quantity + items[n].shippingFee
          ELSE 0) + EligibleSum(items, n - 1, sid)

\* the stored coupons that carry the code
WithCode(code) == {k \in DOMAIN coupons : coupons[k].code = code}

\* the double x is within 10^-12 currency units of its whole cents
NearCents(x) ==
    \/ x.err = 0
    \/ /\ x.exp >= 34
       /\ x.err <= Pow2(x.exp - 34) /\ 0 - x.err <= Pow2(x.exp - 34)

\* the double x is at least c cents
AtLeastCents(x, c) == x.cents > c \/ (x.cents = c /\ x.err >= 0)

\* x < y on doubles that are near their cents
AmountLess(x, y) ==
    \/ x.cents < y.cents
    \/ /\ x.cents = y.cents
       /\ LET p == IF x.exp > y.exp THEN x.exp ELSE y.exp
          IN  Shift(x.err, p - x.exp) < Shift(y.err, p - y.exp)

\* C1: a successful applyCoupon(code, cartId) stores couponId = the
\* coupon's id and total = previous total - S * d / 100 as the program's
\* arithmetic gives it, S being the sum of price * quantity + shippingFee
\* over the cart's items of the coupon's store only: the discount is the
\* double nearest to S * d / 100 and the total the double nearest to the
\* previous total less that discount, stored as it is; its whole cents are
\* those of the previous total less S * d / 100, and it is within 10^-12 of
\* them.
C1_DiscountOnEligibleItems ==
    [][(ApplyStep /\ last'.result = Ok) =>
          \A k \in WithCode(last'.code) :
             LET c == last'.cartId
                 S == EligibleSum(carts[c].cartItems, Len(carts[c].cartItems),
                                  coupons[k].storeId)
                 discount == NearestDouble((S * coupons[k].discount) \div 100,
                                           0, 0)
             IN  /\ carts'[c].couponId = k
                 /\ 100 * discount.cents = S * coupons[k].discount
                 /\ last'.amount = discount
                 /\ carts'[c].total = DoubleMinus(carts[c].total, discount)
                 /\ 100 * (carts[c].total.cents - carts'[c].total.cents)
                       = S * coupons[k].discount
                 /\ NearCents(carts'[c].total)]_vars

\* C1 witness: the example of the specification: total 100.00, eligible
\* subtotal 40.00 + shipping 5.00, discount 10 -> discount 4.50, total 95.50
C1_Witness ==
    /\ last.op = "applyCoupon" /\ last.alone
    /\ last.result = Ok /\ last.cartId = "c1"
    /\ last.amount = Cents(450)
    /\ carts["c1"].total = Cents(9550)
    /\ carts["c1"].couponId = "k1"
    /\ coupons["k1"].discount = 10 /\ coupons["k1"].storeId = "s1"
    /\ Len(carts["c1"].cartItems) = 2

\* the coupon of the call exists and the call read the clock inside its
\* window
CallInWindow ==
    \E k \in WithCode(last'.code) :
        /\ coupons[k].startDate # InvalidDate /\ coupons[k].endDate # InvalidDate
        /\ coupons[k].startDate <= last'.at /\ last'.at <= coupons[k].endDate

\* C2: applyCoupon on a cart whose couponId is already set fails with "A
\* coupon is already applied to this cart." and leaves the cart as it was,
\* for every existing coupon code that is within its validity window.
C2_AlreadyApplied ==
    [][(/\ ApplyStep
        /\ last'.cartId \in DOMAIN carts
        /\ carts[last'.cartId].couponId # Null
        /\ CallInWindow) =>
          /\ last'.result = ErrAlreadyApplied
          /\ carts' = carts]_vars

\* C2 witness: a call with the other (valid) coupon was refused on a cart
\* that holds a coupon
C2_Witness ==
    /\ last.op = "applyCoupon" /\ last.alone
    /\ last.result = ErrAlreadyApplied
    /\ last.cartId \in DOMAIN carts
    /\ carts[last.cartId].couponId # Null
    /\ \E k \in WithCode(last.code) : k # carts[last.cartId].couponId

\* C3: once a cart's couponId is non-null, no later applyCoupon call changes
\* that cart's couponId or total.
C3_NoStackingNoReplacement ==
    [][ApplyStep =>
          \A c \in DOMAIN carts :
             carts[c].couponId # Null =>
                /\ c \in DOMAIN carts'
                /\ carts'[c].couponId = carts[c].couponId
                /\ carts'[c].total = carts[c].total]_vars

\* C3 witness: both carts hold a coupon and a further call has been made on
\* one of them with the coupon it does not hold
C3_Witness ==
    /\ \A c \in DOMAIN carts : carts[c].couponId # Null
    /\ Len(writes) = 2
    /\ last.op = "applyCoupon" /\ last.alone
    /\ last.result # Ok
    /\ last.cartId \in DOMAIN carts
    /\ \E k \in WithCode(last.code) : k # carts[last.cartId].couponId

ApplyErrors ==
    {ErrInvalidCode, ErrExpired, ErrCartNotFound, ErrAlreadyApplied,
     ErrNoEligibleItems}

\* C5: an applyCoupon call that fails performs no write: carts, their items
\* and the coupons are the same before and after, and the caller gets one of
\* the five errors.
C5_FailureWritesNothing ==
    [][(ApplyReturn /\ last'.result # Ok) =>
          /\ last'.result \in ApplyErrors
          /\ carts' = carts /\ coupons' = coupons /\ writes' = writes]_vars

\* C5 witness: a call failed at the last check (no eligible items) on a cart
\* that has items of another store, and nothing was ever written
C5_Witness ==
    /\ last.op = "applyCoupon" /\ last.alone
    /\ last.result = ErrNoEligibleItems
    /\ Len(carts[last.cartId].cartItems) > 0
    /\ writes = <<>>
    /\ \A c \in DOMAIN carts : carts[c].couponId = Null

\* C6: for a coupon with parsable dates, applyCoupon fails with "Coupon is
\* expired or not yet active." exactly when the time now it reads from the
\* clock has now < startDate or now > endDate; now = startDate and
\* now = endDate are inside the window.
C6_InclusiveWindow ==
    [][ApplyReturn =>
          \A k \in WithCode(last'.code) :
             (coupons[k].startDate # InvalidDate /\ coupons[k].endDate # InvalidDate) =>
                /\ (last'.at < coupons[k].startDate
                        \/ last'.at > coupons[k].endDate)
                      <=> (last'.result = ErrExpired)
                /\ (/\ coupons[k].startDate <= coupons[k].endDate
                    /\ last'.at \in {coupons[k].startDate, coupons[k].endDate})
                      => last'.result # ErrExpired]_vars

\* C6 witness: a call made exactly at the coupon's endDate, after its
\* startDate, succeeded
C6_Witness ==
    /\ last.op = "applyCoupon" /\ last.alone
    /\ last.result = Ok
    /\ \E k \in WithCode(last.code) :
          /\ last.at = coupons[k].endDate
          /\ coupons[k].startDate < coupons[k].endDate

\* the cart c has an item of the store sid
HasItemOf(c, sid) ==
    \E i \in 1 .. Len(carts[c].cartItems) : carts[c].cartItems[i].storeId = sid

C7_NoEligibleStep ==
    (/\ ApplyReturn
     /\ last'.cartId \in DOMAIN carts
     /\ \E k \in WithCode(last'.code) :
           ~ HasItemOf(last'.cartId, coupons[k].storeId)) =>
        /\ last'.result # Ok
        /\ carts' = carts /\ coupons' = coupons
        /\ (CallInWindow /\ carts[last'.cartId].couponId = Null)
              => last'.result = ErrNoEligibleItems

C7_AppliedHasEligibleItem ==
    \A c \in DOMAIN carts :
        carts[c].couponId # Null =>
           /\ carts[c].couponId \in DOMAIN coupons
           /\ HasItemOf(c, coupons[carts[c].couponId].storeId)

\* C7: applyCoupon with a coupon whose store owns none of the cart's items
\* fails (with the no-eligible-items error when the earlier checks pass) and
\* mutates nothing, also when the cart has items of other stores; so every
\* cart that holds a coupon has an item of the coupon's store.
C7_NoEligibleItems ==
    /\ []C7_AppliedHasEligibleItem
    /\ [][C7_NoEligibleStep]_vars

\* C7 witness: a coupon was refused on a cart that has items, none of them
\* of the coupon's store, while the other cart holds a coupon
C7_Witness ==
    /\ last.op = "applyCoupon" /\ last.alone
    /\ last.result = ErrNoEligibleItems
    /\ last.cartId \in DOMAIN carts
    /\ Len(carts[last.cartId].cartItems) > 0
    /\ \E k \in WithCode(last.code) : ~ HasItemOf(last.cartId, coupons[k].storeId)
    /\ \E c \in DOMAIN carts : carts[c].couponId # Null

-----------------------------------------------------------------------------
(* Properties of the administrative functions (SpecAdmin) *)

\* a step in which a call of upsertCoupon returns or throws, the request
\* having been alone: last' describes the call, and the coupons before the
\* step are those the call started with
UpsertStep == last'.op = "upsertCoupon" /\ last'.alone

\* a step in which any call of upsertCoupon returns or throws
UpsertReturn == last'.op = "upsertCoupon"

\* a step that is a call of deleteCoupon
DeleteStep == last'.op = "deleteCoupon"

\* the caller of the call owns the store: an authenticated seller whose id is
\* the store's userId
CallerOwns(storeId) ==
    /\ last'.caller # NoUser
    /\ RoleOf(last'.caller) = "SELLER"
    /\ StoreTable[storeId].userId = last'.caller

\* the coupon ids whose row the step created or changed
Written == {k \in DOMAIN coupons' : k \notin DOMAIN coupons \/ coupons'[k] # coupons[k]}

\* C8: upsertCoupon never creates or modifies a coupon in a store the caller
\* does not own: an unauthenticated caller fails with "Unauthenticated.", a
\* caller who does not own the store at storeUrl fails, and in both cases no
\* coupon is written.
C8_OnlyOwnerUpserts ==
    [][UpsertStep =>
          /\ last'.caller = NoUser =>
                last'.result = ErrUnauthenticated /\ coupons' = coupons
          /\ (/\ last'.caller # NoUser
              /\ FindStoreByUrl(last'.storeUrl) # Null
              /\ ~ CallerOwns(FindStoreByUrl(last'.storeUrl))) =>
                last'.result # Ok /\ coupons' = coupons
          /\ \A k \in Written :
                /\ CallerOwns(coupons'[k].storeId)
                /\ k \in DOMAIN coupons => CallerOwns(coupons[k].storeId)]_vars

\* C9: deleteCoupon(couponId, storeUrl) removes a coupon only when the caller
\* is an authenticated seller who owns the store at storeUrl and the coupon
\* with that id belongs to that store, and then removes that coupon only; a
\* couponId of another store's coupon deletes nothing.
C9_DeleteOwnCouponOnly ==
    [][DeleteStep =>
          LET st == FindStoreByUrl(last'.storeUrl)
              id == last'.id
          IN  /\ coupons' # coupons =>
                    /\ st # Null /\ CallerOwns(st)
                    /\ id \in DOMAIN coupons /\ coupons[id].storeId = st
                    /\ DOMAIN coupons' = DOMAIN coupons \ {id}
                    /\ \A k \in DOMAIN coupons' : coupons'[k] = coupons[k]
                    /\ last'.result = Ok
              /\ (id \in DOMAIN coupons /\ coupons[id].storeId # st) =>
                    coupons' = coupons /\ last'.result # Ok
              /\ last'.result = Ok => id \notin DOMAIN coupons']_vars

\* C9 witness: the owner of one store named the id of a coupon of the other
\* store; the delete found no row and the coupon is still stored
C9_Witness ==
    /\ last.op = "deleteCoupon" /\ last.result = ErrRecordNotFound
    /\ last.id \in DOMAIN coupons
    /\ FindStoreByUrl(last.storeUrl) # Null
    /\ StoreTable[FindStoreByUrl(last.storeUrl)].userId = last.caller
    /\ coupons[last.id].storeId # FindStoreByUrl(last.storeUrl)

C10_NoDuplicateInStore ==
    \A k1 \in DOMAIN coupons, k2 \in DOMAIN coupons :
        (k1 # k2 /\ coupons[k1].storeId = coupons[k2].storeId)
            => coupons[k1].code # coupons[k2].code

\* an upsert by a signed-in seller with a coupon id, a non-blank code and the
\* url of a store
C10_ValidUpsert ==
    /\ UpsertStep
    /\ last'.caller # NoUser /\ RoleOf(last'.caller) = "SELLER"
    /\ last'.id # Null
    /\ Trim(last'.code) # <<>>
    /\ FindStoreByUrl(last'.storeUrl) # Null

C10_UpsertStep ==
    C10_ValidUpsert =>
       LET code == Trim(last'.code)
           st == FindStoreByUrl(last'.storeUrl)
           others == {k \in DOMAIN coupons : k # last'.id /\ coupons[k].code = code}
       IN  /\ (\E k \in others : coupons[k].storeId = st) =>
                 last'.result = ErrDuplicateCode /\ coupons' = coupons
           /\ (\A k \in others : coupons[k].storeId # st) => last'.result = Ok

\* C10: no two stored coupons with different ids share (storeId, code); an
\* upsert that would create such a pair fails with the duplicate-code error
\* and writes nothing, while an upsert of a code that only coupons of other
\* stores carry succeeds.
C10_CodeUniquePerStore ==
    /\ []C10_NoDuplicateInStore
    /\ [][C10_UpsertStep]_vars

-----------------------------------------------------------------------------
(* upsertCoupon over the range of codes and discounts a client can send:   *)
(* the owner u1 of store s1 upserts into a table that holds the coupon k1  *)

WideDiscountInputs ==
    {NotANumber, Tenths(6), Tenths(10), Tenths(15), Tenths(504), Tenths(985),
     Tenths(990), Tenths(994), Tenths(1500)}

WideCodeInputs ==
    {<<>>, <<" ", " ">>, <<"A">>, <<"B", " ">>, <<" ", "A", " ", "B">>}

\* the coupons sent in SpecUpsert: the code " A " under the id k2 with every
\* discount, and every code under the id k1
WideCouponInputs ==
    {CouponData("k2", <<" ", "A", " ">>, d, <<1, 2>>) :
        d \in WideDiscountInputs}
      \cup {CouponData("k1", code, Tenths(985), <<1, 2>>) :
               code \in WideCodeInputs}
      \cup {CouponData("k1", <<" ", "A", " ">>, Tenths(1500), <<1, 2>>)}

InitUpsert ==
    /\ coupons = [k \in {"k1"} |-> CouponRow(CodeZ, 50, <<0, 2>>, "s1")]
    /\ carts = [c \in {} |-> Null]
    /\ now = 0
    /\ last = NoCall
    /\ procs = [p \in Procs |-> IdleProc]
    /\ writes = <<>>
    /\ users = NoUsers /\ clerk = NoUsers /\ hook = NoRequest
    /\ deliveries = [h \in Hooks |-> IdleDelivery]
    /\ form = NoForm
    /\ zone \in Zones

NextUpsert ==
    \/ \E p \in Procs, coupon \in WideCouponInputs :
          CallUpsertCoupon(p, "u1", coupon, "url1")
    \/ \E p \in Procs : FindExistingCoupon(p)
    \/ \E p \in Procs : WriteCoupon(p)

SpecUpsert == InitUpsert /\ [][NextUpsert]_vars

\* the discount sent is not a number, below 1 or above 99
OutOfRange(d) == d.nan \/ d.tenths < 10 \/ d.tenths > 990

\* C11: upsertCoupon with a discount that is not a number, below 1 or above
\* 99 stores discount = 1 and succeeds instead of raising an error; a
\* discount within [1, 99] is stored rounded to the nearest integer.
C11_DiscountFallback ==
    [][UpsertReturn =>
          LET d == last'.discount
          IN  /\ last'.result # ErrDiscountRange
              /\ last'.result = Ok =>
                    LET stored == coupons'[last'.id].discount
                    IN  IF OutOfRange(d) THEN stored = 1
                        ELSE /\ 10 * stored - 5 <= d.tenths
                             /\ d.tenths < 10 * stored + 5
              /\ (/\ OutOfRange(d)
                  /\ \E n \in 1 .. Len(last'.code) : last'.code[n] # " "
                  /\ \A k \in DOMAIN coupons :
                        k # last'.id => coupons[k].code # Trim(last'.code)) =>
                    last'.result = Ok]_vars

\* C11 witness: the discount 150 was accepted and stored as 1
C11_Witness ==
    /\ last.op = "upsertCoupon" /\ last.alone /\ last.result = Ok
    /\ last.discount = Tenths(1500)
    /\ coupons[last.id].discount = 1

\* C12: every stored coupon has an integer discount d with 1 <= d <= 99,
\* whatever discount was sent (0.6 and 99.4 included).
C12_DiscountInRange ==
    \A k \in DOMAIN coupons : coupons[k].discount \in 1 .. 99

\* C12 witness: both coupons were written, the last one from the discount
\* 99.4 and the other one from a discount that was rounded up to 99
C12_Witness ==
    /\ last.op = "upsertCoupon" /\ last.result = Ok
    /\ last.discount = Tenths(994)
    /\ DOMAIN coupons = {"k1", "k2"}
    /\ \E k \in DOMAIN coupons : k # last.id /\ coupons[k].discount = 99

\* c is raw without its leading and trailing blanks
IsTrimOf(c, raw) ==
    /\ c # <<>> => c[1] # " " /\ c[Len(c)] # " "
    /\ \E i \in 0 .. Len(raw), j \in 0 .. Len(raw) :
          /\ i + j <= Len(raw)
          /\ c = SubSeq(raw, i + 1, Len(raw) - j)
          /\ \A n \in 1 .. i : raw[n] = " "
          /\ \A n \in (Len(raw) - j + 1) .. Len(raw) : raw[n] = " "

\* C13: upsertCoupon stores the code without its leading and trailing
\* whitespace; a code that is empty after trimming fails with "Coupon code,
\* start date, and end date are required." and no coupon is created or
\* updated.
C13_CodeTrimmed ==
    [][UpsertReturn =>
          /\ last'.result = Ok =>
                /\ coupons'[last'.id].code # <<>>
                /\ IsTrimOf(coupons'[last'.id].code, last'.code)
          /\ (\A n \in 1 .. Len(last'.code) : last'.code[n] = " ") =>
                last'.result = ErrRequired /\ coupons' = coupons]_vars

\* C13 witness: the code " A " was stored as "A"
C13_Witness ==
    /\ last.op = "upsertCoupon" /\ last.alone /\ last.result = Ok
    /\ last.code = <<" ", "A", " ">>
    /\ coupons[last.id].code = <<"A">>

\* C14: upsertCoupon is keyed by the coupon id: with the id of a stored
\* coupon it updates that one row (the number of coupons is unchanged), with
\* an unused id it adds exactly one row; no other row changes.
C14_KeyedById ==
    [][(UpsertReturn /\ last'.result = Ok) =>
          /\ \A k \in DOMAIN coupons : k # last'.id =>
                k \in DOMAIN coupons' /\ coupons'[k] = coupons[k]
          /\ DOMAIN coupons' = DOMAIN coupons \cup {last'.id}
          /\ Cardinality(DOMAIN coupons') =
                IF last'.id \in DOMAIN coupons
                THEN Cardinality(DOMAIN coupons)
                ELSE Cardinality(DOMAIN coupons) + 1
          /\ coupons'[last'.id].code = Trim(last'.code)]_vars

\* C14 witness: the coupon k1, stored with the code Z, was upserted with
\* another code and is still the only coupon
C14_Witness ==
    /\ last.op = "upsertCoupon" /\ last.alone /\ last.result = Ok
    /\ last.id = "k1"
    /\ coupons["k1"].code # CodeZ
    /\ DOMAIN coupons = {"k1"}

-----------------------------------------------------------------------------
(* Order of the checks, frame and concurrent totals of applyCoupon *)

\* the coupon k is outside its window at the time t (a date that does not
\* parse bounds nothing)
OutOfWindow(k, t) ==
    \/ coupons[k].startDate # InvalidDate /\ t < coupons[k].startDate
    \/ coupons[k].endDate # InvalidDate /\ t > coupons[k].endDate

\* the error of the first check that fails, in the order coupon not found,
\* expired, cart not found, already applied, no eligible items
FirstFailure(code, cartId, t) ==
    IF WithCode(code) = {} THEN ErrInvalidCode
    ELSE IF \E k \in WithCode(code) : OutOfWindow(k, t) THEN ErrExpired
    ELSE IF cartId \notin DOMAIN carts THEN ErrCartNotFound
    ELSE IF carts[cartId].couponId # Null THEN ErrAlreadyApplied
    ELSE IF \E k \in WithCode(code) : ~ HasItemOf(cartId, coupons[k].storeId)
         THEN ErrNoEligibleItems
    ELSE Ok

\* C18: applyCoupon reports the first check that fails in the order coupon
\* not found, expired, cart not found, already applied, no eligible items;
\* an expired coupon on a missing cart or on a cart that holds a coupon fails
\* with the expired error.
C18_CheckOrder ==
    [][ApplyStep =>
          /\ last'.result = FirstFailure(last'.code, last'.cartId, last'.at)
          /\ (/\ \E k \in WithCode(last'.code) : OutOfWindow(k, last'.at)
              /\ \/ last'.cartId \notin DOMAIN carts
                 \/ carts[last'.cartId].couponId # Null) =>
                last'.result = ErrExpired]_vars

\* C18 witness: an expired coupon was applied to a cart that does not exist
\* and the call failed with the expired error
C18_Witness ==
    /\ last.op = "applyCoupon" /\ last.alone
    /\ last.result = ErrExpired
    /\ last.cartId \notin DOMAIN carts
    /\ \E k \in WithCode(last.code) :
          coupons[k].endDate # InvalidDate /\ last.at > coupons[k].endDate

\* C19: a successful applyCoupon performs exactly one write, which changes
\* only couponId and total of the cart cartId; its items, every other cart
\* and every coupon stay as they were.
C19_OneWriteOneCart ==
    [][(ApplyStep /\ last'.result = Ok) =>
          LET c == last'.cartId
          IN  /\ Len(writes') = Len(writes) + 1
              /\ writes'[Len(writes')].cartId = c
              /\ SubSeq(writes', 1, Len(writes)) = writes
              /\ DOMAIN carts' = DOMAIN carts
              /\ \A o \in DOMAIN carts : o # c => carts'[o] = carts[o]
              /\ carts'[c].cartItems = carts[c].cartItems
              /\ carts'[c].couponId # carts[c].couponId
              /\ coupons' = coupons]_vars

\* C19 witness: the coupon was applied to c1; c1 keeps its two items, c2 is
\* untouched and one write was made
C19_Witness ==
    /\ last.op = "applyCoupon" /\ last.alone
    /\ last.result = Ok /\ last.cartId = "c1"
    /\ Len(writes) = 1
    /\ carts["c1"].cartItems = <<ItemS1, ItemS2>>
    /\ carts["c2"].couponId = Null
    /\ carts["c2"].total = Cents(1000)

\* C4: two applyCoupon requests for different coupons on the same cart that
\* both read the cart before either wrote both pass the "no coupon yet"
\* check, whatever request is in flight: the check looks at the cart as it is
\* read; a request that passed writes and returns success whatever the cart
\* holds by then, and the cart is left with its couponId and total.
C4_BothRequestsSucceed ==
    [][\A p \in Procs :
          LET c == procs[p].call.cartId
          IN  /\ (procs[p].pc = "fetchCart" /\ procs'[p].pc # "fetchCart") =>
                    (procs'[p].pc = "update" <=>
                        /\ c \in DOMAIN carts
                        /\ carts[c].couponId = Null
                        /\ HasItemOf(c, procs[p].row.storeId))
              /\ (procs[p].pc = "update" /\ procs'[p].pc # "update") =>
                    /\ last'.op = "applyCoupon" /\ last'.result = Ok
                    /\ last'.cartId = c
                    /\ carts'[c].couponId = procs[p].couponId
                    /\ carts'[c].total = procs[p].newTotal
                    /\ Len(writes') = Len(writes) + 1]_vars

\* C4 witness: two requests with different coupons wrote the cart c1, each
\* having read it before any write; the second has just returned success and
\* the cart holds its coupon
C4_Witness ==
    /\ Len(writes) = 2
    /\ writes[1].cartId = "c1" /\ writes[2].cartId = "c1"
    /\ writes[1].couponId # writes[2].couponId
    /\ writes[1].readAt = 0 /\ writes[2].readAt = 0
    /\ last.op = "applyCoupon" /\ last.result = Ok /\ ~ last.alone
    /\ carts["c1"].couponId = writes[2].couponId

\* the positions of the log that are writes of the cart c
WritesOf(c) == {i \in 1 .. Len(writes) : writes[i].cartId = c}

\* C20: under every interleaving of overlapping applyCoupon
\* requests, a cart that started with total T0 and no coupon holds,
\* whenever its couponId is k, the total T0 minus the discount of k as the
\* program's arithmetic gives the two (the double nearest to T0 less the
\* double nearest to S * d / 100), which is T0 less S * d / 100 in whole
\* cents and within 10^-12 of them: it is never reduced by a second
\* discount.  T0 is the total the first write of the cart replaced.
C20_SingleDiscount ==
    \A c \in DOMAIN carts :
        IF carts[c].couponId = Null THEN WritesOf(c) = {}
        ELSE /\ WritesOf(c) # {}
             /\ LET first == CHOOSE i \in WritesOf(c) :
                                 \A j \in WritesOf(c) : i <= j
                    T0 == writes[first].before
                    k == carts[c].couponId
                    S == EligibleSum(carts[c].cartItems,
                                     Len(carts[c].cartItems), coupons[k].storeId)
                    discount == NearestDouble(
                                    (S * coupons[k].discount) \div 100, 0, 0)
                IN  /\ carts[c].total = DoubleMinus(T0, discount)
                    /\ 100 * (T0.cents - carts[c].total.cents)
                          = S * coupons[k].discount
                    /\ NearCents(carts[c].total)

\* C20 witness: two requests with different coupons both wrote the cart c1,
\* the second write replacing a total that was already discounted
C20_Witness ==
    /\ Len(writes) = 2
    /\ writes[1].cartId = "c1" /\ writes[2].cartId = "c1"
    /\ writes[1].couponId # writes[2].couponId
    /\ writes[2].before = writes[1].total
    /\ AmountLess(writes[1].total, writes[1].before)
    /\ carts["c1"].total = writes[2].total

-----------------------------------------------------------------------------
(* The webhook endpoint on its own: the user table is empty or holds a     *)
(* seller whose role was set in the database                               *)

SellerRow ==
    [email |-> "b@x", name |-> <<"Ann", "Lee">>, picture |-> "img",
     role |-> "SELLER"]

InitHook ==
    /\ coupons = [k \in {} |-> Null]
    /\ carts = [c \in {} |-> Null]
    /\ now = 0
    /\ last = NoCall
    /\ procs = [p \in Procs |-> IdleProc]
    /\ writes = <<>>
    /\ users \in {NoUsers, [u \in {"x2"} |-> SellerRow]}
    /\ clerk = NoUsers
    /\ hook = NoRequest
    /\ deliveries = [h \in Hooks |-> IdleDelivery]
    /\ form = NoForm
    /\ zone = 0

NextHook ==
    \/ \E h \in Hooks, req \in RequestInputs : Webhook(h, req)
    \/ \E h \in Hooks : UpdateUserMetadata(h)

SpecHook == InitHook /\ [][NextHook]_vars

\* a step in which the endpoint answers a request that passed the secret,
\* header and signature checks; hook' describes the delivery
VerifiedStep == hook'.status # 0 /\ Verified(hook'.req)

\* a step in which a verified user.created / user.updated event is answered
UserEventStep ==
    VerifiedStep /\ hook'.req.type \in {"user.created", "user.updated"}

\* a step in which the delivery h of a user.created / user.updated event
\* gets through db.user.upsert and goes on to the role update
UpsertedStep(h) == deliveries[h].pc = "idle" /\ deliveries'[h].pc = "mirror"

\* C15: without verification the webhook changes no user record and sends
\* no role update: a missing server secret gives 500, also when a header is
\* missing too; a missing svix header or a failed signature gives 400.
C15_UnverifiedRejected ==
    [][hook'.status # 0 =>
          /\ ~ hook'.req.secret => hook'.status = 500
          /\ (/\ hook'.req.secret
              /\ (hook'.req.missing # Null \/ ~ hook'.req.validSig))
                => hook'.status = 400
          /\ ~ Verified(hook'.req) =>
                users' = users /\ clerk' = clerk /\ hook'.sent = Null]_vars

\* C15 witness: users exist, and a request without the server secret and
\* without a header got 500
C15_Witness ==
    /\ ~ hook.req.secret /\ hook.req.missing # Null
    /\ hook.status = 500
    /\ users # NoUsers /\ clerk # NoUsers

\* the rows of a user table that hold the email e
RowsWith(table, e) == {k \in DOMAIN table : table[k].email = e}

\* the address of the entry named by primary_email_address_id
PrimaryAddress(req) ==
    {req.emails[i].email_address :
        i \in {j \in 1 .. Len(req.emails) : req.emails[j].id = req.primary}}

\* the primary email of an event: the address of the entry named by
\* primary_email_address_id and, when no entry is named, the one the
\* endpoint resolves
PrimaryEmails(req) ==
    IF PrimaryAddress(req) # {} THEN PrimaryAddress(req)
    ELSE {ResolveEmail(req)} \ {Null}

\* C16, as stated: after a verified user.created / user.updated event with
\* id X and primary email E got 200, exactly one user record has the email
\* E, its id is X, and the role sent to the identity provider for X is its
\* role.
C16_UserSyncedAt200 ==
    [][(/\ VerifiedStep
        /\ hook'.req.type \in {"user.created", "user.updated"}
        /\ hook'.status = 200) =>
          \A E \in PrimaryEmails(hook'.req) :
             LET X == hook'.req.id
             IN  /\ RowsWith(users', E) = {X}
                 /\ X \in DOMAIN clerk'
                 /\ clerk'[X] = users'[X].role
                 /\ hook'.sent = users'[X].role]_vars

\* C16, amended: when db.user.upsert of a verified user.created /
\* user.updated event with id X and primary email E returns, exactly one
\* user record has the email E, its id is X and the role returned is its
\* role; when the event then gets 200 the role sent to the identity provider
\* for X is the role the upsert returned, and when no other delivery was
\* handled between the arrival of the event and its response the record is
\* still the only one with the email E and the role sent is its role.
C16_UserSynced ==
    [][/\ \A h \in Hooks : UpsertedStep(h) =>
             LET X == deliveries'[h].rsp.req.id
             IN  \A E \in PrimaryEmails(deliveries'[h].rsp.req) :
                    /\ RowsWith(users', E) = {X}
                    /\ deliveries'[h].rsp.role = users'[X].role
       /\ (/\ VerifiedStep
           /\ hook'.req.type \in {"user.created", "user.updated"}
           /\ hook'.status = 200) =>
             LET X == hook'.req.id
             IN  /\ hook'.role # Null
                 /\ hook'.sent = hook'.role
                 /\ X \in DOMAIN clerk'
                 /\ clerk'[X] = hook'.sent
                 /\ hook'.alone =>
                       \A E \in PrimaryEmails(hook'.req) :
                          /\ RowsWith(users', E) = {X}
                          /\ clerk'[X] = users'[X].role
                          /\ hook'.sent = users'[X].role]_vars

\* C16 witness: the seller stored under the id x2 came in an event with the
\* same primary email and the id x1; the record now has the id x1 and the
\* role SELLER was sent for x1
C16_Witness ==
    /\ hook.status = 200 /\ hook.alone /\ hook.req.type = "user.updated"
    /\ hook.req.id = "x1" /\ hook.req.primary = "e2"
    /\ PrimaryEmails(hook.req) = {"b@x"}
    /\ DOMAIN users = {"x1"}
    /\ users["x1"].email = "b@x"
    /\ users["x1"].role = "SELLER"
    /\ clerk["x1"] = "SELLER" /\ hook.sent = "SELLER"

\* a delivery got 200 for an event whose upsert returned SELLER, other
\* deliveries were handled before its role update, and the record of its id
\* now holds another email and the role USER
C16_StaleRole ==
    /\ hook.status = 200 /\ ~ hook.alone
    /\ hook.req.type = "user.updated" /\ hook.req.id = "x2"
    /\ hook.sent = "SELLER"
    /\ RowsWith(users, "b@x") = {}
    /\ "x2" \in DOMAIN users /\ users["x2"].role = "USER"

\* C17: after a verified user.deleted event for the id X no user record has
\* the id X and every record with another id is still there, unchanged.
C17_UserDeleted ==
    [][(VerifiedStep /\ hook'.req.type = "user.deleted") =>
          /\ hook'.req.id \notin DOMAIN users'
          /\ \A k \in DOMAIN users : k # hook'.req.id =>
                k \in DOMAIN users' /\ users'[k] = users[k]
          /\ DOMAIN users' \subseteq DOMAIN users]_vars

\* C17 witness: the user of the event was deleted and another user is left
C17_Witness ==
    /\ hook.req.type = "user.deleted" /\ hook.status = 200
    /\ hook.req.id \in DOMAIN clerk
    /\ hook.req.id \notin DOMAIN users
    /\ users # NoUsers

\* C24: a verified user.created / user.updated event without any
\* email_addresses entry gets 400, writes no user record and sends no role.
C24_MissingEmailRejected ==
    [][(UserEventStep /\ hook'.req.emails = <<>>) =>
          /\ hook'.status = 400
          /\ users' = users /\ clerk' = clerk
          /\ hook'.sent = Null]_vars

\* C24 witness: users exist, and an event without emails got 400
C24_Witness ==
    /\ Verified(hook.req) /\ hook.req.type = "user.updated"
    /\ hook.req.emails = <<>> /\ hook.req.profile = FullProfile
    /\ hook.status = 400
    /\ users # NoUsers

\* C25: a user.created / user.updated event changes no role: a row whose
\* email was stored before keeps the role stored with that email, a row with
\* a new email has the role USER, and the role sent to the identity provider
\* is the role db.user.upsert returned for the row of the event's id, which
\* is the role of that row when no other delivery came in between.
C25_RoleFromStore ==
    [][/\ (UserEventStep \/ \E h \in Hooks : UpsertedStep(h)) =>
             /\ \A k \in DOMAIN users' :
                   /\ \A j \in RowsWith(users, users'[k].email) :
                         users'[k].role = users[j].role
                   /\ RowsWith(users, users'[k].email) = {} =>
                         users'[k].role = "USER"
             /\ \A k \in DOMAIN users \cap DOMAIN users' :
                   users'[k].role = users[k].role
       /\ \A h \in Hooks : UpsertedStep(h) =>
             LET X == deliveries'[h].rsp.req.id
             IN  /\ X \in DOMAIN users'
                 /\ deliveries'[h].rsp.role = users'[X].role
                 /\ clerk' = clerk
       /\ (UserEventStep /\ hook'.sent # Null) =>
             /\ hook'.sent = hook'.role
             /\ clerk'[hook'.req.id] = hook'.sent
             /\ hook'.alone =>
                   /\ hook'.req.id \in DOMAIN users'
                   /\ hook'.sent = users'[hook'.req.id].role]_vars

\* C25 witness: a user.updated event for the seller's email sent SELLER, and
\* a user made by the webhook is stored with the role USER
C25_Witness ==
    /\ hook.req.type = "user.updated" /\ hook.sent = "SELLER"
    /\ \E k \in DOMAIN users : users[k].role = "USER"
    /\ \E k \in DOMAIN users : users[k].role = "SELLER"
    /\ \E k \in DOMAIN clerk : clerk[k] = "USER"

\* C26: a verified user.created / user.updated event delivered again right
\* after itself leaves the user table as the first delivery left it; when
\* the first delivery got 200 and the identity provider accepts the update
\* again, the second gets 200 and sends the same role.
C26_RedeliveryIdempotent ==
    [][/\ \A h \in Hooks :
             (UpsertedStep(h) /\ deliveries'[h].rsp.again) => users' = users
       /\ (UserEventStep /\ hook'.again) =>
             /\ users' = users
             /\ (/\ hook'.alone /\ hook'.prevStatus = 200
                 /\ hook'.req.clerkOk) =>
                   /\ hook'.status = 200
                   /\ hook'.sent = hook'.prevSent
                   /\ clerk' = clerk]_vars

\* C26 witness: the second delivery of an event got 200, and the one row
\* with its email has its id, name and picture
C26_Witness ==
    /\ hook.again /\ hook.alone /\ hook.status = 200
    /\ hook.prevStatus = 200
    /\ hook.req.type = "user.created"
    /\ hook.req.profile = FullProfile
    /\ \E e \in PrimaryAddress(hook.req) \cup {ResolveEmail(hook.req)} :
          /\ RowsWith(users, e) = {hook.req.id}
          /\ users[hook.req.id].name = <<"Ann", "Lee">>
          /\ users[hook.req.id].picture = "img"

\* C27: the upsert comes before the role update: when the upsert fails
\* nothing is written, no role is sent and the response is 500; when the
\* upsert succeeds the row is in the table before any role is sent, and
\* when the role update then fails the response is 500, no role is recorded
\* and the written row is kept; a role is only ever sent by a delivery
\* whose upsert succeeded.
C27_UpsertBeforeMirror ==
    [][/\ (UserEventStep /\ ResolveEmail(hook'.req) # Null
              /\ hook'.role = Null) =>
             LET X == hook'.req.id
                 E == ResolveEmail(hook'.req)
             IN  /\ X \in DOMAIN users /\ users[X].email # E
                 /\ hook'.status = 500 /\ hook'.sent = Null
                 /\ users' = users /\ clerk' = clerk
       /\ \A h \in Hooks : UpsertedStep(h) =>
             LET X == deliveries'[h].rsp.req.id
                 E == ResolveEmail(deliveries'[h].rsp.req)
             IN  /\ ~ (X \in DOMAIN users /\ users[X].email # E)
                 /\ RowsWith(users', E) = {X}
                 /\ users'[X].name = UserName(deliveries'[h].rsp.req.profile, E)
                 /\ clerk' = clerk
       /\ (UserEventStep /\ hook'.role # Null) =>
             /\ users' = users
             /\ IF hook'.req.clerkOk
                THEN hook'.status = 200 /\ hook'.sent = hook'.role
                ELSE /\ hook'.status = 500 /\ hook'.sent = Null
                     /\ clerk' = clerk
       /\ hook'.sent # Null => hook'.role # Null]_vars

\* C27 witness: the role update failed, the response was 500, and the new
\* row is in the table although no role was ever sent for it
C27_Witness ==
    /\ Verified(hook.req) /\ hook.req.type = "user.created"
    /\ ~ hook.req.clerkOk /\ hook.status = 500 /\ hook.role # Null
    /\ ResolveEmail(hook.req) # Null
    /\ RowsWith(users, ResolveEmail(hook.req)) = {hook.req.id}
    /\ hook.req.id \notin DOMAIN clerk

-----------------------------------------------------------------------------
(* Bounds of the new total (SpecApply) *)

\* the total of the cart c is at least S and no item of c has a negative
\* price, quantity or shipping fee
TotalCoversItems(c, S) ==
    /\ AtLeastCents(carts[c].total, S)
    /\ \A i \in 1 .. Len(carts[c].cartItems) :
          /\ carts[c].cartItems[i].price >= 0
          /\ carts[c].cartItems[i].quantity >= 0
          /\ carts[c].cartItems[i].shippingFee >= 0

-----------------------------------------------------------------------------
(* A seller writes coupons that shoppers then apply: upsertCoupon and      *)
(* applyCoupon on the same coupon table while time passes                  *)

LifeDateInputs == {<<EmptyDate, EmptyDate>>, <<1, 2>>, <<2, 1>>}
LifeCodeInputs == {<<" ">>, <<"A">>}

InitLife ==
    /\ coupons = [k \in {} |-> Null]
    /\ carts = [c \in {"c1", "c2"} |->
                   IF c = "c1" THEN CartRow(8500, <<ItemS1, ItemS2>>)
                   ELSE CartRow(1000, <<ItemS2b>>)]
    /\ now = 0
    /\ last = NoCall
    /\ procs = [p \in Procs |-> IdleProc]
    /\ writes = <<>>
    /\ users = NoUsers /\ clerk = NoUsers /\ hook = NoRequest
    /\ deliveries = [h \in Hooks |-> IdleDelivery]
    /\ form = NoForm
    /\ zone \in Zones

NextLife ==
    \/ \E p \in Procs, code \in LifeCodeInputs, dates \in LifeDateInputs :
          CallUpsertCoupon(p, "u1",
              [none |-> FALSE, id |-> "k1", code |-> code,
               discount |-> Tenths(100), dates |-> dates],
              "url1")
    \/ \E p \in Procs : FindExistingCoupon(p)
    \/ \E p \in Procs : WriteCoupon(p)
    \/ \E p \in Procs, cartId \in {"c1", "c2"} :
          CallApplyCoupon(p, CodeA, cartId)
    \/ \E p \in Procs : CheckDates(p)
    \/ \E p \in Procs : FetchCart(p)
    \/ \E p \in Procs : UpdateCart(p)
    \/ Tick

SpecLife == InitLife /\ [][NextLife]_vars

\* the stored coupon k starts after it ends
Reversed(k) ==
    DateLt(ParseDate(coupons[k].endDate), ParseDate(coupons[k].startDate))

\* C23: no stored coupon has an empty code, startDate or endDate: a missing
\* start date is stored as the time of the call, a missing end date as 30
\* days later, and given dates are stored as they are, whatever their order;
\* applyCoupon for a stored coupon that starts after it ends fails with
\* "Coupon is expired or not yet active." whenever it is called.
C23_DatesPresentNotOrdered ==
    [][/\ \A k \in DOMAIN coupons' :
             /\ coupons'[k].code # <<>>
             /\ coupons'[k].startDate # EmptyDate
             /\ coupons'[k].endDate # EmptyDate
       /\ (UpsertStep /\ last'.result = Ok) =>
             /\ coupons'[last'.id].startDate =
                   IF last'.dates[1] = EmptyDate THEN last'.at
                   ELSE last'.dates[1]
             /\ coupons'[last'.id].endDate =
                   IF last'.dates[2] = EmptyDate THEN last'.at + ThirtyDays
                   ELSE last'.dates[2]
       /\ (UpsertStep /\ last'.result # Ok) => coupons' = coupons
       /\ (ApplyStep /\ \E k \in WithCode(last'.code) : Reversed(k)) =>
             last'.result = ErrExpired /\ carts' = carts
      ]_vars

-----------------------------------------------------------------------------
(* Sellers write coupons and list the coupons of a store *)

\* the calls <<user, coupon, storeUrl>> of upsertCoupon made in SpecRead:
\* each owner writes the two codes under the two ids in the own store
ReadCoupon(id, code) == CouponData(id, code, Tenths(100), <<1, 2>>)

ReadUpsertInputs ==
    {<<"u1", ReadCoupon("k1", CodeA), "url1">>,
     <<"u1", ReadCoupon("k2", CodeA), "url1">>,
     <<"u1", ReadCoupon("k2", CodeB), "url1">>,
     <<"u2", ReadCoupon("k1", CodeA), "url2">>,
     <<"u2", ReadCoupon("k1", CodeB), "url2">>,
     <<"u2", ReadCoupon("k2", CodeB), "url2">>}

NextRead ==
    \/ \E p \in Procs, in \in ReadUpsertInputs :
          CallUpsertCoupon(p, in[1], in[2], in[3])
    \/ \E p \in Procs : FindExistingCoupon(p)
    \/ \E p \in Procs : WriteCoupon(p)
    \/ \E user \in Callers, storeUrl \in StoreUrlInputs :
          GetStoreCoupons(user, storeUrl)

SpecRead == InitAdmin /\ [][NextRead]_vars

\* the store s has the url and belongs to the seller who calls
OwnStoreAt(s, user, storeUrl) ==
    /\ user # NoUser /\ RoleOf(user) = "SELLER"
    /\ StoreTable[s].url = storeUrl /\ StoreTable[s].userId = user

\* C28: getStoreCoupons returns exactly the coupons of the store at storeUrl
\* when the caller is a seller who owns that store; for every other call it
\* throws and returns nothing; it never changes a record.
C28_OwnStoreCouponsOnly ==
    [][last'.op = "getStoreCoupons" =>
          /\ coupons' = coupons /\ carts' = carts /\ users' = users
          /\ \A s \in StoreIds :
                OwnStoreAt(s, last'.caller, last'.storeUrl) =>
                   /\ last'.result = Ok
                   /\ DOMAIN last'.rows =
                         {k \in DOMAIN coupons : coupons[k].storeId = s}
                   /\ \A k \in DOMAIN last'.rows : last'.rows[k] = coupons[k]
          /\ (~ \E s \in StoreIds :
                   OwnStoreAt(s, last'.caller, last'.storeUrl)) =>
                /\ last'.result # Ok
                /\ last'.rows = <<>>]_vars

\* C28 witness: two stores have a coupon each, and the owner of one store got
\* the one coupon of that store
C28_Witness ==
    /\ last.op = "getStoreCoupons" /\ last.result = Ok
    /\ last.caller = "u2" /\ last.storeUrl = "url2"
    /\ DOMAIN coupons = {"k1", "k2"}
    /\ \E k \in DOMAIN coupons : coupons[k].storeId = "s1"
    /\ \E k \in DOMAIN coupons :
          DOMAIN last.rows = {k} /\ coupons[k].storeId = "s2"

-----------------------------------------------------------------------------
(* The layout of the seller dashboard *)

DashUsers == {"x1", "x2", "x3"}
Roles == {"USER", "SELLER", "ADMIN"}
Children == "children"
RedirectHome == "redirect:/"

LayoutResult_notUser(metadata, user) ==
    IF user \in DOMAIN metadata /\ metadata[user] = "USER"
    THEN RedirectHome ELSE Children

\* if (user?.publicMetadata.role !== "SELLER") redirect("/"); user is Null
\* when nobody is signed in, and a user without an entry has no role
LayoutResult(metadata, user) ==
    IF user # NoUser /\ user \in DOMAIN metadata /\ metadata[user] = "SELLER"
    THEN Children ELSE RedirectHome

\* SellerDashboardLayout rendered for the signed-in user
SellerDashboardLayout(user) ==
    /\ last' = [NoCall EXCEPT !.op = "SellerDashboardLayout", !.caller = user,
                   !.result = LayoutResult(clerk, user), !.at = now]
    /\ UNCHANGED <<coupons, carts, now, procs, writes, users, clerk, hook,
                   deliveries, form, zone>>

\* the identity provider holds a role for some of the users
InitDash ==
    /\ coupons = [k \in {} |-> Null]
    /\ carts = [c \in {} |-> Null]
    /\ now = 0
    /\ last = NoCall
    /\ procs = [p \in Procs |-> IdleProc]
    /\ writes = <<>>
    /\ users = NoUsers
    /\ clerk \in UNION {[D -> Roles] : D \in SUBSET DashUsers}
    /\ hook = NoRequest
    /\ deliveries = [h \in Hooks |-> IdleDelivery]
    /\ form = NoForm
    /\ zone = 0

NextDash == \E user \in DashUsers \cup {NoUser} : SellerDashboardLayout(user)

SpecDash == InitDash /\ [][NextDash]_vars

\* C29: the layout renders its children only for a signed-in user whose
\* role is SELLER; every other caller, signed in or not, is redirected to "/".
C29_SellersOnly ==
    [][last'.op = "SellerDashboardLayout" =>
          /\ last'.result \in {Children, RedirectHome}
          /\ last'.result = Children <=>
                /\ last'.caller # NoUser
                /\ last'.caller \in DOMAIN clerk
                /\ clerk[last'.caller] = "SELLER"
          /\ clerk' = clerk]_vars

\* C29 witness: nobody is signed in and the layout redirected, although
\* sellers, an admin and a user without a role exist
C29_Witness ==
    /\ last.op = "SellerDashboardLayout"
    /\ last.caller = NoUser /\ last.result = RedirectHome
    /\ DOMAIN clerk = {"x1", "x2"}
    /\ clerk["x1"] = "SELLER" /\ clerk["x2"] = "ADMIN"

-----------------------------------------------------------------------------
(* The coupon form: handleSubmit builds the payload and calls upsertCoupon *)

\* a value of a datetime-local input: its time and the length of its text,
\* 16 without seconds and 19 with them; the empty text has the length 0
EmptyText == [time |-> EmptyDate, len |-> 0]
\* the values of the form that are submitted: a code with blanks around it
\* and a discount to round with the start date left empty, a code without
\* a discount, and an empty code
FormValues ==
    {[code |-> <<" ", "A", " ", "B">>, discount |-> Tenths(985),
      startDate |-> EmptyText, endDate |-> [time |-> 2, len |-> 19]],
     [code |-> <<" ", "A", " ">>, discount |-> NotANumber,
      startDate |-> [time |-> 1, len |-> 16],
      endDate |-> [time |-> 2, len |-> 19]],
     [code |-> <<>>, discount |-> Tenths(985),
      startDate |-> [time |-> 1, len |-> 16],
      endDate |-> [time |-> 2, len |-> 19]]}

FormDiscount_noRound(d) ==
    IF d.nan \/ d.tenths < 10 \/ d.tenths > 990 THEN Tenths(10) ELSE d

\* Number.isNaN(n) || n < 1 || n > 99 ? 1 : Math.round(n), as the number
\* that is sent to the server
FormDiscount(d) ==
    IF d.nan \/ d.tenths < 10 \/ d.tenths > 990 THEN Tenths(10)
    ELSE Tenths(10 * MathRound(d.tenths))

\* toStorageFormat: "" stays "", a text of length 16 gets ":00" appended;
\* the result is the storage text, which stands for the same time
ToStorageFormat(value) == IF value.len = 0 THEN EmptyDate ELSE value.time

\* toDateTimeLocal(date): the wall-clock text of the time t in the browser's
\* zone, without seconds; the server reads it in its own zone
ToDateTimeLocal(t, skew) == [time |-> t + skew, len |-> 16]

\* values.startDate || defaultStart
FormDate(value, default) == IF value.len = 0 THEN default ELSE value

\* the new coupons one run submits
MaxFresh == 2

\* v4(): the n-th id it makes; an id it made is never made again and is the
\* id of no stored coupon
V4(n) == <<"k2", "k3", "k4", "k5">>[n]

\* data?.id ? data.id : v4(), made being the ids v4() has made so far
FormId(data, made) == IF data # Null THEN data ELSE V4(made + 1)

\* the coupon handleSubmit passes to upsertCoupon; the defaults are those
\* of the render, made from the browser's clock at the time renderedAt
FormPayload(values, id, renderedAt, skew) ==
    [none |-> FALSE, id |-> id,
     code |-> Trim(values.code),
     discount |-> FormDiscount(values.discount),
     dates |-> <<ToStorageFormat(FormDate(values.startDate,
                                    ToDateTimeLocal(renderedAt, skew))),
                 ToStorageFormat(FormDate(values.endDate,
                                    ToDateTimeLocal(renderedAt + ThirtyDays,
                                                    skew)))>>]

\* CouponDetails is rendered in a browser for a new coupon (data is Null) or
\* for the stored coupon data: the defaults of the two dates are made from
\* the browser's clock
CouponDetails(data, skew) ==
    /\ form' = [form EXCEPT !.rendered = TRUE, !.at = now, !.skew = skew,
                            !.data = data]
    /\ last' = NoCall
    /\ UNCHANGED <<coupons, carts, now, procs, writes, users, clerk, hook,
                   deliveries, zone>>

\* handleSubmit(values) of the rendered form, opened by user: the payload
\* is built, with the id of the coupon the form was opened for or a new id,
\* and the call of upsertCoupon is sent to the server as the request p
HandleSubmit(p, user, values, storeUrl) ==
    LET id == FormId(form.data, form.made)
    IN  /\ form.rendered
        /\ procs[p].pc = "idle"
        /\ form.data = Null => form.made < MaxFresh
        /\ form' = IF form.data = Null
                   THEN [form EXCEPT !.made = @ + 1] ELSE form
        /\ procs' = [Overlap(p) EXCEPT ![p] =
              [IdleProc EXCEPT !.pc = "sent",
                  !.coupon = FormPayload(values, id, form.at, form.skew),
                  !.call = [NoCall EXCEPT !.alone = Alone(p),
                               !.caller = user, !.storeUrl = storeUrl]]]
        /\ last' = NoCall
        /\ UNCHANGED <<coupons, carts, now, writes, users, clerk, hook,
                       deliveries, zone>>

\* the call the form sent reaches the server and upsertCoupon starts
ServeUpsertCoupon(p) ==
    /\ procs[p].pc = "sent"
    /\ BuildPayload(p, procs[p].call.caller, procs[p].coupon,
                    procs[p].call.storeUrl)

\* the renders of the form, on a server in the zone 0: for a new coupon in
\* a browser in the server's zone, and for the stored coupon k1 in a browser
\* whose zone is nine hours ahead; each is the data and the hours by which
\* the browser's zone is ahead
FormRenderInputs == {<<Null, 0>>, <<"k1", 9>>}

InitForm ==
    /\ coupons = [k \in {"k1"} |-> CouponRow(CodeZ, 50, <<0, 2>>, "s1")]
    /\ carts = [c \in {} |-> Null]
    /\ now = 0
    /\ last = NoCall
    /\ procs = [p \in Procs |-> IdleProc]
    /\ writes = <<>>
    /\ users = NoUsers /\ clerk = NoUsers /\ hook = NoRequest
    /\ deliveries = [h \in Hooks |-> IdleDelivery]
    /\ form = NoForm
    /\ zone = 0

NextForm ==
    \/ \E render \in FormRenderInputs :
          CouponDetails(render[1], render[2])
    \/ \E p \in Procs, values \in FormValues :
          HandleSubmit(p, "u1", values, "url1")
    \/ \E p \in Procs : ServeUpsertCoupon(p)
    \/ \E p \in Procs : FindExistingCoupon(p)
    \/ \E p \in Procs : WriteCoupon(p)
    \/ Tick

SpecForm == InitForm /\ [][NextForm]_vars

\* C30: on a payload built by handleSubmit the server's normalisation
\* changes neither the code nor the discount: the code is its own trim, the
\* discount is an integer in 1..99 that the server maps to itself, and a
\* stored row carries the code and the discount of the payload.
C30_FormAlreadyNormal ==
    [][UpsertReturn =>
          /\ Trim(last'.code) = last'.code
          /\ ~ last'.discount.nan
          /\ 10 * NormalizeDiscount(last'.discount) = last'.discount.tenths
          /\ last'.result \in {Ok, ErrRequired, ErrDuplicateCode,
                               ErrUniqueConstraint}
          /\ last'.result = Ok =>
                /\ coupons'[last'.id].code = last'.code
                /\ 10 * coupons'[last'.id].discount = last'.discount.tenths
                /\ coupons'[last'.id].startDate = last'.dates[1]
                /\ coupons'[last'.id].endDate = last'.dates[2]]_vars

\* C30 witness: the form, rendered at the time 0 and submitted later, sent
\* the code "A B", the discount 99, rounded from a value the form was given,
\* and the start date of its render, and the row holds just these
C30_Witness ==
    /\ last.op = "upsertCoupon" /\ last.result = Ok
    /\ last.code = <<"A", " ", "B">> /\ last.discount = Tenths(990)
    /\ last.dates = <<0, 2>> /\ last.at > 0
    /\ coupons[last.id].code = <<"A", " ", "B">>
    /\ coupons[last.id].discount = 99

NextUpsertConc ==
    \/ \E p \in Procs, id \in CouponIdInputs, code \in ConcCodeInputs,
          storeUrl \in {"url1", "url2"} :
          CallUpsertCoupon(p, "u1",
              [none |-> FALSE, id |-> id, code |-> code,
               discount |-> Tenths(100), dates |-> <<1, 2>>], storeUrl)
    \/ \E p \in Procs : FindExistingCoupon(p)
    \/ \E p \in Procs : WriteCoupon(p)

SpecUpsertConc == InitAdmin /\ [][NextUpsertConc]_vars

\* another coupon of the store of the request p carries its code
OtherInStore(p) ==
    \E k \in DOMAIN coupons :
        /\ k # procs[p].couponId
        /\ coupons[k].code = procs[p].row.code
        /\ coupons[k].storeId = procs[p].row.storeId

\* C21: when two upsertCoupon requests for the same trimmed code and store
\* under different ids interleave between the lookup and the write, the
\* duplicate check of upsertCoupon does not keep both from reaching the
\* write: the lookup looks at the stored coupons only, so a request passes
\* it whenever no other coupon of the store carries the code yet, whatever
\* request is in flight, and a request that passed goes on to
\* db.coupon.upsert without a second look; there it ends with success or
\* with the database's own error, never with the duplicate-code error.
C21_CheckThenWriteRace ==
    [][\A p \in Procs :
          /\ (procs[p].pc = "findFirst" /\ procs'[p].pc # "findFirst") =>
                /\ procs'[p].pc = "upsert" <=> ~ OtherInStore(p)
                /\ procs'[p].pc # "upsert" =>
                      last'.result = ErrDuplicateCode /\ coupons' = coupons
          /\ (procs[p].pc = "upsert" /\ procs'[p].pc # "upsert") =>
                /\ last'.op = "upsertCoupon"
                /\ last'.result \in {Ok, ErrUniqueConstraint}
                /\ last'.result = Ok =>
                      coupons'[procs[p].couponId] = procs[p].row
                /\ last'.result = ErrUniqueConstraint =>
                      coupons' = coupons]_vars

\* C21 witness: two requests for the code A in one store under different
\* ids both passed the lookup before either wrote; one wrote its coupon and
\* the other has just ended at the write with the database's error
C21_Witness ==
    /\ last.op = "upsertCoupon" /\ ~ last.alone
    /\ last.result = ErrUniqueConstraint
    /\ last.id \notin DOMAIN coupons
    /\ \E k \in DOMAIN coupons :
          /\ k # last.id
          /\ coupons[k].code = CodeA /\ Trim(last.code) = CodeA
          /\ coupons[k].storeId = FindStoreByUrl(last.storeUrl)

=============================================================================
